---- MODULE Spec2Model ----
(***************************************************************************)
(* Intent Normalisation Service: the ingest pipeline, the clarification    *)
(* lifecycle, the artifact journal and the plan executor of app/main.py    *)
(* over the three tables of app/storage/db.py, with the normaliser of      *)
(* app/normalization.py as pure operators.                                 *)
(*                                                                         *)
(* Each HTTP request is a process; one step of a request is one database   *)
(* transaction (or one gateway call) together with the local computation   *)
(* that precedes it.  Requests interleave between steps.                   *)
(***************************************************************************)
EXTENDS Integers, Sequences, FiniteSets, TLC

\* ------------------------------------------------------------------------
\* Bounds of the model
\* ------------------------------------------------------------------------
\* Requests issued in one behaviour.
MaxRequests == 3
\* The requests the workers handle at the same time.
MaxInFlight == 2
\* The clock runs from 0 to MaxTime hours in ticks of TickHours.
MaxTime == 144
TickHours == 72

\* ------------------------------------------------------------------------
\* Settings (app/config.py)
\* ------------------------------------------------------------------------
clarification_expiry_hours == 72
\* Scores and confidences are in hundredths: 0.75 is 75.
min_confidence_to_write == 75
max_inferred_fields == 2
project_resolution_threshold == 90
project_resolution_margin == 10

\* ------------------------------------------------------------------------
\* JSON values
\* ------------------------------------------------------------------------
\* Python None; a key that a dict does not hold; a JSON object stored where
\* a string is expected ({"selector": ...}).
Null == "null"
Absent == "absent"
DictValue == "dict"
\* An absent number (confidence).
NoNumber == -1

\* Optional values: None is <<>>, a value v is <<v>>.
None == <<>>
Some(v) == <<v>>

IsStr(v) == v \notin {Null, Absent, DictValue}
\* Python truthiness of dict.get(key).
Truthy(v) == v \notin {Null, Absent}
\* a or b
Or(a, b) == IF Truthy(a) THEN a ELSE b

NoPatch == [status |-> Absent, priority |-> Absent, due |-> Absent]

\* The dict `fields` of a packet or of a canonical form.
NoFields ==
    [title |-> Absent, task_id |-> Absent, notion_page_id |-> Absent,
     project |-> Absent, project_id |-> Absent, project_resolved |-> FALSE,
     due |-> Absent, status |-> Absent, priority |-> Absent, patch |-> NoPatch]

NoPending == [field |-> Null, selector |-> Null]

\* ------------------------------------------------------------------------
\* Dates (app/normalization.py)
\* ------------------------------------------------------------------------
\* A date is a day number; day 0 is a Monday.  date.isoformat() and
\* date.fromisoformat() convert between day numbers and strings.
MaxDay == 30
Days == 0..MaxDay
IsoFormat(day) == "date-" \o ToString(day)
IsIsoDate(value) == \E d \in Days : value = IsoFormat(d)
\* datetime.now(zone).date()
Today(now) == now \div 24

WeekdayNames == <<"monday", "tuesday", "wednesday", "thursday", "friday", "saturday", "sunday">>
\* _WEEKDAYS: name -> index, Monday = 0
IsWeekdayName(s) == \E i \in 1..7 : WeekdayNames[i] = s
WeekdayIndex(s) == (CHOOSE i \in 1..7 : WeekdayNames[i] = s) - 1
IsNextWeekday(s) == \E i \in 1..7 : s = "next " \o WeekdayNames[i]
NextWeekdayName(s) == WeekdayNames[CHOOSE i \in 1..7 : s = "next " \o WeekdayNames[i]]

\* date.weekday()
weekday(day) == day % 7

_relative_due_label(value) ==
    IF value \in {"today", "tomorrow", "next week", "next week monday"} THEN value
    ELSE IF IsNextWeekday(value) THEN value
    ELSE IF IsWeekdayName(value) THEN value
    ELSE Null

\* A faulty step: today counts when it is the weekday asked for.
_next_weekday_counting_today(start, wd, strict_future) ==
    start + ((wd - weekday(start)) % 7)

_next_weekday(start, wd, strict_future) ==
    LET days_ahead == (wd - weekday(start)) % 7
    IN  IF days_ahead = 0 /\ strict_future THEN start + 7 ELSE start + days_ahead

\* None, or <<[value, strategy]>>.
_resolve_relative_due(value, today) ==
    LET label == _relative_due_label(value)
    IN  IF label = Null THEN None
        ELSE IF label = "today" THEN Some([value |-> IsoFormat(today), strategy |-> "today"])
        ELSE IF label = "tomorrow" THEN Some([value |-> IsoFormat(today + 1), strategy |-> "tomorrow"])
        ELSE IF label \in {"next week", "next week monday"}
             THEN Some([value |-> IsoFormat(_next_weekday(today + 7, 0, FALSE)),
                        strategy |-> "next_week_monday"])
        ELSE IF IsNextWeekday(label)
             THEN Some([value |-> IsoFormat(_next_weekday(today, WeekdayIndex(NextWeekdayName(label)), TRUE)),
                        strategy |-> "next_" \o NextWeekdayName(label)])
        ELSE Some([value |-> IsoFormat(_next_weekday(today, WeekdayIndex(label), TRUE)),
                   strategy |-> "next_" \o label])


\* datetime.fromisoformat accepts dates and datetimes.
IsoDateTimes == {"2025-01-01T09:00:00"}
_is_iso_datetime(value) == value \in IsoDateTimes \/ IsIsoDate(value)
_is_iso_date(value) == IsIsoDate(value)

\* ------------------------------------------------------------------------
\* Project resolver (injected; app/normalization.py)
\* ------------------------------------------------------------------------
\* resolve(selector): a scored candidate list.  The stub returns []; the HTTP
\* resolver returns what the search backend holds, here one clear match for
\* "Acme" and a near tie for "Alpha".
Resolve(selector) ==
    IF selector = "Acme"
    THEN << [id |-> "proj_acme", label |-> "Acme Corp", score |-> 95] >>
    ELSE IF selector = "Alpha"
    THEN << [id |-> "proj_alpha", label |-> "Alpha", score |-> 95],
            [id |-> "proj_alphabet", label |-> "Alphabet", score |-> 92] >>
    ELSE << >>

\* id and label both become the label; candidates without a label are dropped.
_normalize_project_candidates(candidates) ==
    LET labelOf(c) == Or(c.label, c.id)
        keep == SelectSeq(candidates, LAMBDA c : IsStr(labelOf(c)))
    IN  [i \in 1..Len(keep) |->
            [id |-> labelOf(keep[i]), label |-> labelOf(keep[i]), score |-> keep[i].score]]

\* candidate.get("score"), 0.0 when the candidate has none.
ScoreOf(candidate) == IF candidate.score = NoNumber THEN 0 ELSE candidate.score

\* A faulty selection: the lead over the second candidate is not looked at.
_select_high_confidence_candidate_without_margin(candidates, threshold, margin) ==
    IF Len(candidates) = 0 THEN None
    ELSE LET n == Len(candidates)
             top == CHOOSE i \in 1..n :
                        /\ \A j \in 1..n : ScoreOf(candidates[j]) <= ScoreOf(candidates[i])
                        /\ \A j \in 1..(i - 1) : ScoreOf(candidates[j]) < ScoreOf(candidates[i])
         IN  IF ScoreOf(candidates[top]) < threshold THEN None
             ELSE Some(candidates[top])

\* None, or <<candidate>>: the top candidate of a stable descending sort, if
\* it reaches the threshold and leads the second by the margin.
_select_high_confidence_candidate(candidates, threshold, margin) ==
    IF Len(candidates) = 0 THEN None
    ELSE LET n == Len(candidates)
             top == CHOOSE i \in 1..n :
                        /\ \A j \in 1..n : ScoreOf(candidates[j]) <= ScoreOf(candidates[i])
                        /\ \A j \in 1..(i - 1) : ScoreOf(candidates[j]) < ScoreOf(candidates[i])
             top_score == ScoreOf(candidates[top])
             rest == (1..n) \ {top}
             second_score == CHOOSE s \in {ScoreOf(candidates[j]) : j \in rest} :
                                 \A j \in rest : ScoreOf(candidates[j]) <= s
         IN  IF top_score < threshold THEN None
             ELSE IF n > 1 /\ (top_score - second_score) < margin THEN None
             ELSE Some(candidates[top])

\* ------------------------------------------------------------------------
\* Normaliser (app/normalization.py)
\* ------------------------------------------------------------------------
NormRejected(code) ==
    [status |-> "rejected", canonical_draft |-> None, final_canonical |-> None,
     clarification |-> None, error_code |-> code]

NormNeedsClarification(draft, question, answer_type, candidates) ==
    [status |-> "needs_clarification", canonical_draft |-> Some(draft),
     final_canonical |-> None,
     clarification |-> Some([question |-> question,
                             expected_answer_type |-> answer_type,
                             candidates |-> candidates]),
     error_code |-> Null]

NormReady(final) ==
    [status |-> "ready", canonical_draft |-> Some(final), final_canonical |-> Some(final),
     clarification |-> None, error_code |-> Null]

CanonicalForm(intent_type, fields, pending, inferences) ==
    [intent_type |-> intent_type, fields |-> fields, pending |-> pending,
     inferences |-> inferences]

\* A faulty NormalizeDue: the patch leaves the priority out.
NormalizeDue_without_priority(intent_type, fields, canonical_fields, today) ==
    LET due_value == fields.due
        isUpdate == intent_type = "update_task"
        patch0 == IF isUpdate
                  THEN [NoPatch EXCEPT !.status = fields.status]
                  ELSE NoPatch
        dueDraft == CanonicalForm(intent_type, [canonical_fields EXCEPT !.due = DictValue],
                                  [field |-> "due", selector |-> due_value], << >>)
        askDue == NormNeedsClarification(dueDraft, "What is the due date?", "date", << >>)
        Finish(due, inferred) ==
            LET patch == IF isUpdate /\ due # Absent THEN [patch0 EXCEPT !.due = due] ELSE patch0
                cf == IF isUpdate THEN [canonical_fields EXCEPT !.patch = patch]
                      ELSE IF due # Absent THEN [canonical_fields EXCEPT !.due = due]
                      ELSE canonical_fields
            IN  IF Len(inferred) > 0 /\ Len(inferred) > max_inferred_fields
                THEN NormRejected("POLICY_TOO_MANY_INFERENCES")
                ELSE IF isUpdate /\ patch = NoPatch
                THEN NormRejected("VALIDATION_ERROR")
                ELSE NormReady(CanonicalForm(intent_type, cf, NoPending, inferred))
    IN  IF IsStr(due_value)
        THEN IF _relative_due_label(due_value) # Null
             THEN LET resolved == _resolve_relative_due(due_value, today)
                  IN  IF resolved = None THEN askDue
                      ELSE Finish(resolved[1].value,
                                  << [field |-> "due", inferred_from |-> due_value,
                                      strategy |-> resolved[1].strategy] >>)
             ELSE IF _is_iso_datetime(due_value) \/ _is_iso_date(due_value)
             THEN Finish(due_value, << >>)
             ELSE askDue
        ELSE IF Truthy(due_value)
        THEN Finish(due_value, << >>)
        ELSE Finish(Absent, << >>)

\* Lines 323-433: due-date resolution, inference limit, patch assembly, Ready.
NormalizeDue(intent_type, fields, canonical_fields, today) ==
    LET due_value == fields.due
        isUpdate == intent_type = "update_task"
        patch0 == IF isUpdate
                  THEN [NoPatch EXCEPT !.status = fields.status, !.priority = fields.priority]
                  ELSE NoPatch
        dueDraft == CanonicalForm(intent_type, [canonical_fields EXCEPT !.due = DictValue],
                                  [field |-> "due", selector |-> due_value], << >>)
        askDue == NormNeedsClarification(dueDraft, "What is the due date?", "date", << >>)
        Finish(due, inferred) ==
            LET patch == IF isUpdate /\ due # Absent THEN [patch0 EXCEPT !.due = due] ELSE patch0
                cf == IF isUpdate THEN [canonical_fields EXCEPT !.patch = patch]
                      ELSE IF due # Absent THEN [canonical_fields EXCEPT !.due = due]
                      ELSE canonical_fields
            IN  IF Len(inferred) > 0 /\ Len(inferred) > max_inferred_fields
                THEN NormRejected("POLICY_TOO_MANY_INFERENCES")
                ELSE IF isUpdate /\ patch = NoPatch
                THEN NormRejected("VALIDATION_ERROR")
                ELSE NormReady(CanonicalForm(intent_type, cf, NoPending, inferred))
    IN  IF IsStr(due_value)
        THEN IF _relative_due_label(due_value) # Null
             THEN LET resolved == _resolve_relative_due(due_value, today)
                  IN  IF resolved = None THEN askDue
                      ELSE Finish(resolved[1].value,
                                  << [field |-> "due", inferred_from |-> due_value,
                                      strategy |-> resolved[1].strategy] >>)
             ELSE IF _is_iso_datetime(due_value) \/ _is_iso_date(due_value)
             THEN Finish(due_value, << >>)
             ELSE askDue
        ELSE IF Truthy(due_value)
        THEN Finish(due_value, << >>)
        ELSE Finish(Absent, << >>)

\* Lines 280-321: project resolution (create_task only).
NormalizeProject(intent_type, fields, canonical_fields, today) ==
    LET project_value == IF fields.project # Absent THEN fields.project
                         ELSE IF fields.project_id # Absent THEN fields.project_id
                         ELSE Null
    IN  IF intent_type = "create_task" /\ IsStr(project_value)
        THEN IF fields.project_resolved
             THEN NormalizeDue(intent_type, fields,
                               [canonical_fields EXCEPT !.project = project_value], today)
             ELSE LET candidates == _normalize_project_candidates(Resolve(project_value))
                      resolved == _select_high_confidence_candidate(
                                      candidates, project_resolution_threshold,
                                      project_resolution_margin)
                  IN  IF resolved # None
                      THEN NormalizeDue(intent_type, fields,
                               [canonical_fields EXCEPT
                                   !.project = Or(Or(resolved[1].label, resolved[1].id), project_value)],
                               today)
                      ELSE NormNeedsClarification(
                               CanonicalForm(intent_type,
                                   [canonical_fields EXCEPT !.project = DictValue],
                                   [field |-> "project", selector |-> project_value], << >>),
                               IF Len(candidates) > 0 THEN "Which project matches?"
                               ELSE "Provide the project name.",
                               IF Len(candidates) > 0 THEN "choice" ELSE "free_text",
                               candidates)
        ELSE NormalizeDue(intent_type, fields, canonical_fields, today)

\* A faulty gate: a confidence equal to the threshold is rejected too.
normalize_intent_rejecting_at_threshold(packet, today) ==
    LET intent_type == packet.intent_type
        fields == packet.fields
        confidence == packet.confidence
    IN  IF confidence # NoNumber /\ confidence <= min_confidence_to_write
        THEN NormRejected("POLICY_LOW_CONFIDENCE")
        ELSE IF ~Truthy(intent_type)
        THEN NormNeedsClarification(
                 CanonicalForm(Null, fields, [field |-> "intent_type", selector |-> Null], << >>),
                 "What is the intent type?", "free_text", << >>)
        ELSE IF intent_type \notin {"create_task", "update_task"}
        THEN NormRejected("UNSUPPORTED_INTENT_TYPE")
        ELSE IF intent_type = "create_task"
        THEN LET title == Or(fields.title, packet.title)
             IN  IF ~Truthy(title) THEN NormRejected("VALIDATION_ERROR")
                 ELSE NormalizeProject(intent_type, fields,
                          [NoFields EXCEPT !.title = title, !.status = fields.status,
                                           !.priority = fields.priority], today)
        ELSE LET task_id == Or(fields.task_id, fields.notion_page_id)
             IN  IF ~Truthy(task_id) THEN NormRejected("POLICY_MISSING_TASK_ID")
                 ELSE NormalizeProject(intent_type, fields,
                          [NoFields EXCEPT !.task_id = task_id], today)

\* A faulty order: the intent type is asked about before the confidence is
\* looked at.
normalize_intent_asking_type_first(packet, today) ==
    LET intent_type == packet.intent_type
        fields == packet.fields
        confidence == packet.confidence
    IN  IF ~Truthy(intent_type)
        THEN NormNeedsClarification(
                 CanonicalForm(Null, fields, [field |-> "intent_type", selector |-> Null], << >>),
                 "What is the intent type?", "free_text", << >>)
        ELSE IF confidence # NoNumber /\ confidence < min_confidence_to_write
        THEN NormRejected("POLICY_LOW_CONFIDENCE")
        ELSE IF intent_type \notin {"create_task", "update_task"}
        THEN NormRejected("UNSUPPORTED_INTENT_TYPE")
        ELSE IF intent_type = "create_task"
        THEN LET title == Or(fields.title, packet.title)
             IN  IF ~Truthy(title) THEN NormRejected("VALIDATION_ERROR")
                 ELSE NormalizeProject(intent_type, fields,
                          [NoFields EXCEPT !.title = title, !.status = fields.status,
                                           !.priority = fields.priority], today)
        ELSE LET task_id == Or(fields.task_id, fields.notion_page_id)
             IN  IF ~Truthy(task_id) THEN NormRejected("POLICY_MISSING_TASK_ID")
                 ELSE NormalizeProject(intent_type, fields,
                          [NoFields EXCEPT !.task_id = task_id], today)

\* packet: [intent_type, fields, confidence, title]; today: the current date in
\* user_timezone.
normalize_intent(packet, today) ==
    LET intent_type == packet.intent_type
        fields == packet.fields
        confidence == packet.confidence
    IN  IF confidence # NoNumber /\ confidence < min_confidence_to_write
        THEN NormRejected("POLICY_LOW_CONFIDENCE")
        ELSE IF ~Truthy(intent_type)
        THEN NormNeedsClarification(
                 CanonicalForm(Null, fields, [field |-> "intent_type", selector |-> Null], << >>),
                 "What is the intent type?", "free_text", << >>)
        ELSE IF intent_type \notin {"create_task", "update_task"}
        THEN NormRejected("UNSUPPORTED_INTENT_TYPE")
        ELSE IF intent_type = "create_task"
        THEN LET title == Or(fields.title, packet.title)
             IN  IF ~Truthy(title) THEN NormRejected("VALIDATION_ERROR")
                 ELSE NormalizeProject(intent_type, fields,
                          [NoFields EXCEPT !.title = title, !.status = fields.status,
                                           !.priority = fields.priority], today)
        ELSE LET task_id == Or(fields.task_id, fields.notion_page_id)
             IN  IF ~Truthy(task_id) THEN NormRejected("POLICY_MISSING_TASK_ID")
                 ELSE NormalizeProject(intent_type, fields,
                          [NoFields EXCEPT !.task_id = task_id], today)

\* A faulty apply_clarification_answer: the project is set and the mark that
\* it is resolved is not.
apply_clarification_answer_unmarked(canonical_draft, answer_payload) ==
    LET field == canonical_draft.pending.field
        choice_id == answer_payload.choice_id
        answer_text == answer_payload.answer_text
        fields == canonical_draft.fields
        applied ==
            IF field = "intent_type"
            THEN [canonical_draft EXCEPT !.intent_type =
                     IF Truthy(answer_text) THEN answer_text
                     ELSE IF Truthy(choice_id) THEN choice_id ELSE @]
            ELSE IF field = "project" /\ (Truthy(choice_id) \/ Truthy(answer_text))
            THEN [canonical_draft EXCEPT !.fields =
                     [fields EXCEPT !.project = Or(choice_id, answer_text),
                                    !.project_id = Absent]]
            ELSE IF field = "due"
            THEN [canonical_draft EXCEPT !.fields =
                     [fields EXCEPT !.due =
                         IF Truthy(answer_text) THEN answer_text
                         ELSE IF Truthy(choice_id) THEN choice_id ELSE @]]
            ELSE canonical_draft
    IN  [applied EXCEPT !.pending = NoPending]

\* answer_payload: [choice_id, answer_text], Null where not given.
apply_clarification_answer(canonical_draft, answer_payload) ==
    LET field == canonical_draft.pending.field
        choice_id == answer_payload.choice_id
        answer_text == answer_payload.answer_text
        fields == canonical_draft.fields
        applied ==
            IF field = "intent_type"
            THEN [canonical_draft EXCEPT !.intent_type =
                     IF Truthy(answer_text) THEN answer_text
                     ELSE IF Truthy(choice_id) THEN choice_id ELSE @]
            ELSE IF field = "project" /\ (Truthy(choice_id) \/ Truthy(answer_text))
            THEN [canonical_draft EXCEPT !.fields =
                     [fields EXCEPT !.project = Or(choice_id, answer_text),
                                    !.project_id = Absent,
                                    !.project_resolved = TRUE]]
            ELSE IF field = "due"
            THEN [canonical_draft EXCEPT !.fields =
                     [fields EXCEPT !.due =
                         IF Truthy(answer_text) THEN answer_text
                         ELSE IF Truthy(choice_id) THEN choice_id ELSE @]]
            ELSE canonical_draft
    IN  [applied EXCEPT !.pending = NoPending]


\* ------------------------------------------------------------------------
\* Canonical JSON, hashing, identifiers (app/util)
\* ------------------------------------------------------------------------
\* A request body is a JSON text: an atom (a string or a number, held as the
\* text of its value), or an object whose members are in the order in which
\* the text has them, with ws blanks after each token.  json.loads gives the
\* value the text denotes: the atoms, and dicts that keep the order of the
\* text's members; the blanks are gone.
JsonAtom(text, ws) == [t |-> "atom", s |-> text, ws |-> ws, m |-> << >>]
JsonObject(members, ws) == [t |-> "object", s |-> "", ws |-> ws, m |-> members]
JsonMember(key, value) == [k |-> key, v |-> value]

RECURSIVE json_loads(_)
json_loads(text) ==
    [t |-> text.t, s |-> text.s,
     m |-> [i \in 1..Len(text.m) |->
               JsonMember(text.m[i].k, json_loads(text.m[i].v))]]

\* The keys of the bodies, in the order of sorted(): by code point.
KeyOrder == <<"a", "b", "fields", "kind", "natural_language", "x", "y">>
KeyRank(key) == CHOOSE i \in 1..Len(KeyOrder) : KeyOrder[i] = key
\* sort_keys=True: the members of a dict by ascending key.
SortedMembers(members) ==
    LET all == {members[i] : i \in 1..Len(members)}
    IN  [i \in 1..Len(members) |->
            CHOOSE member \in all :
                Cardinality({other \in all : KeyRank(other.k) < KeyRank(member.k)}) = i - 1]

\* A faulty dump: the members are written in the order the dict has them.
RECURSIVE json_dumps_unsorted(_)
RECURSIVE DumpMembersUnsorted(_)
DumpMembersUnsorted(members) ==
    IF members = << >> THEN ""
    ELSE "\"" \o members[1].k \o "\":" \o json_dumps_unsorted(members[1].v)
             \o (IF Len(members) > 1 THEN "," ELSE "")
             \o DumpMembersUnsorted(Tail(members))
json_dumps_unsorted(obj) ==
    IF obj.t = "object" THEN "{" \o DumpMembersUnsorted(obj.m) \o "}" ELSE obj.s

\* json.dumps(obj, sort_keys=True, separators=(",", ":")) of a parsed body:
\* no blanks, the members of every dict by ascending key.
RECURSIVE json_dumps(_)
RECURSIVE DumpMembers(_)
DumpMembers(members) ==
    IF members = << >> THEN ""
    ELSE "\"" \o members[1].k \o "\":" \o json_dumps(members[1].v)
             \o (IF Len(members) > 1 THEN "," ELSE "")
             \o DumpMembers(Tail(members))
json_dumps(obj) ==
    IF obj.t = "object" THEN "{" \o DumpMembers(SortedMembers(obj.m)) \o "}" ELSE obj.s

IsParsedJson(obj) == DOMAIN obj = {"t", "s", "m"}

\* json.dumps(obj, sort_keys=True, separators=(",", ":")): the text of a JSON
\* value, the same for every key order.  A parsed body is dumped member by
\* member.  The service's own dicts are records, which have no key order:
\* comparing the value puts the keys of its records in one fixed order
\* (sort_keys), at every depth, before ToString writes them.
canonical_json(obj) ==
    IF IsParsedJson(obj) THEN json_dumps(obj)
    ELSE IF obj = obj THEN ToString(obj) ELSE ""
\* A digest of the text, taken to be free of collisions.
sha256_hex(text) == "sha256:" \o text
compute_idempotency_key(payload) == sha256_hex(canonical_json(payload))

\* datetime.isoformat() of the clock, in hours.
Timestamp(at) == "T" \o ToString(at)

\* Minted identifiers are unique per request: request number n names them.
new_intent_id(n) == "int_" \o ToString(n)
new_correlation_id(n) == "cor_" \o ToString(n)
new_trace_id(n) == "trace_" \o ToString(n)

compute_request_id(payload, idempotency_key) ==
    IF Truthy(payload.request_id) THEN payload.request_id
    ELSE "intent:" \o idempotency_key

compute_action_idempotency_key(action, payload) ==
    "action:" \o sha256_hex(canonical_json([action |-> action, payload |-> payload]))

\* ------------------------------------------------------------------------
\* Response envelope (IngestResponse) and its parts (app/main.py)
\* ------------------------------------------------------------------------
NoDetails == [request_id |-> Null, execution_results |-> << >>, notion_task_id |-> Null]

\* {"code": ..., "details": {"status_code": ..., ...}}; NoError is None.
NoError == [code |-> Null, status_code |-> 0, endpoint |-> Null, request_id |-> Null]
build_error_payload(code, status_code) == [NoError EXCEPT !.code = code, !.status_code = status_code]

IngestResponse(status, intent_id, correlation_id) ==
    [status |-> status, intent_id |-> intent_id, correlation_id |-> correlation_id,
     plan |-> None, clarification |-> None, error_code |-> Null, error |-> NoError,
     details |-> NoDetails,
     receipt_id |-> Null, trace_id |-> Null, idempotency_key |-> Null]

attach_request_id(response_payload, request_id) ==
    IF response_payload.details.request_id = Null
    THEN [response_payload EXCEPT !.details.request_id = request_id]
    ELSE response_payload

attach_receipt_fields(response_payload, intent_id, trace_id, idempotency_key, overwrite) ==
    [response_payload EXCEPT
        !.receipt_id = IF overwrite \/ @ = Null THEN intent_id ELSE @,
        !.trace_id = IF overwrite \/ @ = Null THEN trace_id ELSE @,
        !.idempotency_key = IF overwrite \/ @ = Null THEN idempotency_key ELSE @]

\* One action per plan, named after the intent type.
build_plan(intent_id, correlation_id, final_canonical) ==
    LET fields == final_canonical.fields
        isUpdate == final_canonical.intent_type = "update_task"
        action_name == IF isUpdate THEN "notion.tasks.update" ELSE "notion.tasks.create"
        payload == IF isUpdate
                   THEN [NoFields EXCEPT !.notion_page_id = fields.task_id, !.patch = fields.patch]
                   ELSE fields
    IN  << [kind |-> "action", action |-> action_name, intent_id |-> intent_id,
            correlation_id |-> correlation_id,
            idempotency_key |-> compute_action_idempotency_key(action_name, payload),
            payload |-> payload] >>

build_clarification_payload(row) ==
    [clarification_id |-> row.clarification_id, intent_id |-> row.intent_id,
     question |-> row.question, expected_answer_type |-> row.expected_answer_type,
     candidates |-> row.candidates, status |-> row.status, answer |-> row.answer,
     answered_at |-> row.answered_at]

\* ------------------------------------------------------------------------
\* Tables (app/storage/schema.py) and their operations (app/storage/db.py)
\* ------------------------------------------------------------------------
\* A table is the sequence of its rows in insertion order.
Rows(table) == {table[i] : i \in 1..Len(table)}
First(rows) == IF Len(rows) = 0 THEN None ELSE Some(rows[1])
Last(rows) == IF Len(rows) = 0 THEN None ELSE Some(rows[Len(rows)])

IntentRow(intent_id, idempotency_key, status, raw_packet, correlation_id, trace_id, actor_id) ==
    [intent_id |-> intent_id, status |-> status, idempotency_key |-> idempotency_key,
     actor_id |-> actor_id, raw_packet |-> raw_packet, canonical_draft |-> None,
     final_canonical |-> None, correlation_id |-> correlation_id, trace_id |-> trace_id,
     response_envelope_json |-> None]

get_intent(intents_t, intent_id) ==
    First(SelectSeq(intents_t, LAMBDA row : row.intent_id = intent_id))

\* A faulty upsert: on a conflict it hands back the values it was called with
\* instead of the row read back.
upsert_intent_returning_own_values(intents_t, new_row) ==
    LET existing == First(SelectSeq(intents_t,
                        LAMBDA row : row.idempotency_key = new_row.idempotency_key))
    IN  IF existing # None
        THEN [table |-> intents_t, row |-> Some(new_row), created |-> FALSE, error |-> FALSE]
        ELSE [table |-> Append(intents_t, new_row), row |-> Some(new_row),
              created |-> TRUE, error |-> FALSE]

\* A faulty upsert: it reports created for the row it read back.
upsert_intent_reporting_created(intents_t, new_row) ==
    LET existing == First(SelectSeq(intents_t,
                        LAMBDA row : row.idempotency_key = new_row.idempotency_key))
    IN  IF existing # None
        THEN [table |-> intents_t, row |-> existing, created |-> TRUE, error |-> FALSE]
        ELSE [table |-> Append(intents_t, new_row), row |-> Some(new_row),
              created |-> TRUE, error |-> FALSE]

\* INSERT ... ON CONFLICT (idempotency_key) DO NOTHING RETURNING *, then the
\* read-back.  A second row with the primary key of another row is refused by
\* the database (error).
upsert_intent_by_idempotency_key(intents_t, new_row) ==
    LET existing == First(SelectSeq(intents_t,
                        LAMBDA row : row.idempotency_key = new_row.idempotency_key))
    IN  IF existing # None
        THEN [table |-> intents_t, row |-> existing, created |-> FALSE, error |-> FALSE]
        ELSE IF get_intent(intents_t, new_row.intent_id) # None
        THEN [table |-> intents_t, row |-> None, created |-> FALSE, error |-> TRUE]
        ELSE [table |-> Append(intents_t, new_row), row |-> Some(new_row),
              created |-> TRUE, error |-> FALSE]

\* UPDATE intents SET <the arguments that are not None> WHERE intent_id = ...
\* values: [status, actor_id: Null or a value; canonical_draft, final_canonical,
\* response_envelope_json: None or Some(v)].
NoChange ==
    [status |-> Null, actor_id |-> Null, canonical_draft |-> None,
     final_canonical |-> None, response_envelope_json |-> None]

update_intent(intents_t, intent_id, values) ==
    [i \in 1..Len(intents_t) |->
        IF intents_t[i].intent_id # intent_id THEN intents_t[i]
        ELSE [intents_t[i] EXCEPT
                !.status = IF values.status # Null THEN values.status ELSE @,
                !.actor_id = IF values.actor_id # Null THEN values.actor_id ELSE @,
                !.canonical_draft = IF values.canonical_draft # None
                                    THEN values.canonical_draft ELSE @,
                !.final_canonical = IF values.final_canonical # None
                                    THEN values.final_canonical ELSE @,
                !.response_envelope_json = IF values.response_envelope_json # None
                                           THEN values.response_envelope_json ELSE @]]

\* A faulty create_clarification: when the intent has a clarification already,
\* its newest row is put back to open with the new question instead of a row
\* being inserted.
create_clarification_reopening(clar_t, intent_id, clarification, actor_id, created_at) ==
    LET mine == {i \in 1..Len(clar_t) : clar_t[i].intent_id = intent_id}
        newest == CHOOSE i \in mine : \A j \in mine : j <= i
    IN  IF mine = {}
        THEN Append(clar_t,
                 [clarification_id |-> Len(clar_t) + 1, intent_id |-> intent_id,
                  created_at |-> created_at, status |-> "open",
                  question |-> clarification.question,
                  expected_answer_type |-> clarification.expected_answer_type,
                  candidates |-> clarification.candidates,
                  answer |-> <<>>, answered_at |-> "null", actor_id |-> actor_id])
        ELSE [clar_t EXCEPT ![newest] =
                 [@ EXCEPT !.status = "open", !.question = clarification.question,
                           !.expected_answer_type = clarification.expected_answer_type,
                           !.candidates = clarification.candidates]]

\* clarification_id is the server default: here the row number.
create_clarification(clar_t, intent_id, clarification, actor_id, created_at) ==
    Append(clar_t,
        [clarification_id |-> Len(clar_t) + 1, intent_id |-> intent_id,
         created_at |-> created_at, status |-> "open",
         question |-> clarification.question,
         expected_answer_type |-> clarification.expected_answer_type,
         candidates |-> clarification.candidates,
         answer |-> None, answered_at |-> Null, actor_id |-> actor_id])

get_clarification(clar_t, clarification_id) ==
    First(SelectSeq(clar_t, LAMBDA row : row.clarification_id = clarification_id))

\* The SELECT of get_open_clarification_for_intent: the newest open row.
select_open_clarification_for_intent(clar_t, intent_id, actor_id) ==
    LET open == SelectSeq(clar_t, LAMBDA row :
                    /\ row.intent_id = intent_id
                    /\ row.status = "open"
                    /\ (Truthy(actor_id) => row.actor_id = actor_id))
        newest == {i \in 1..Len(open) : \A j \in 1..Len(open) :
                        open[j].created_at <= open[i].created_at}
    IN  IF Len(open) = 0 THEN None
        ELSE Some(open[CHOOSE i \in newest : \A j \in newest : j <= i])

\* The SELECT of list_open_clarifications, oldest first.
select_open_clarifications(clar_t, actor_id) ==
    SelectSeq(clar_t, LAMBDA row :
        /\ row.status = "open"
        /\ (Truthy(actor_id) => row.actor_id = actor_id))

\* A faulty guard: WHERE id = ..., whatever the status.
answer_clarification_guard_any_status(row, clarification_id) ==
    row.clarification_id = clarification_id

\* UPDATE clarifications SET status = 'answered' ... WHERE id = ... AND status = 'open'
answer_clarification_guard(row, clarification_id) ==
    row.clarification_id = clarification_id /\ row.status = "open"

\* A faulty answer_clarification: the guarded update, but the row is handed
\* back whether or not the update matched it.
answer_clarification_always_returning(clar_t, clarification_id, answer_payload, at) ==
    LET updated == [i \in 1..Len(clar_t) |->
                       IF clar_t[i].clarification_id = clarification_id /\ clar_t[i].status = "open"
                       THEN [clar_t[i] EXCEPT !.status = "answered",
                                              !.answer = Some(answer_payload),
                                              !.answered_at = Timestamp(at)]
                       ELSE clar_t[i]]
        hit == {i \in 1..Len(clar_t) : clar_t[i].clarification_id = clarification_id}
    IN  [clarifications |-> updated,
         row |-> IF hit = {} THEN None ELSE Some(updated[CHOOSE i \in hit : TRUE])]

\* A faulty answer_clarification: the status and the answer are set, the
\* time of the answer is not.
answer_clarification_without_answered_at(clar_t, clarification_id, answer_payload, at) ==
    LET updated == [i \in 1..Len(clar_t) |->
                       IF answer_clarification_guard(clar_t[i], clarification_id)
                       THEN [clar_t[i] EXCEPT !.status = "answered",
                                              !.answer = Some(answer_payload)]
                       ELSE clar_t[i]]
        hit == {i \in 1..Len(clar_t) : answer_clarification_guard(clar_t[i], clarification_id)}
    IN  [clarifications |-> updated,
         row |-> IF hit = {} THEN None ELSE Some(updated[CHOOSE i \in hit : TRUE])]

\* ... RETURNING *: the updated row, or None when the guard matched no row.
answer_clarification(clar_t, clarification_id, answer_payload, at) ==
    LET updated == [i \in 1..Len(clar_t) |->
                       IF answer_clarification_guard(clar_t[i], clarification_id)
                       THEN [clar_t[i] EXCEPT !.status = "answered",
                                              !.answer = Some(answer_payload),
                                              !.answered_at = Timestamp(at)]
                       ELSE clar_t[i]]
        hit == {i \in 1..Len(clar_t) : answer_clarification_guard(clar_t[i], clarification_id)}
    IN  [clarifications |-> updated,
         row |-> IF hit = {} THEN None ELSE Some(updated[CHOOSE i \in hit : TRUE])]

\* The rows the guarded UPDATE of expire_open_clarifications matches.
expire_open_guard(row, cutoff, intent_id, actor_id) ==
    /\ row.status = "open"
    /\ row.created_at < cutoff
    /\ (Truthy(intent_id) => row.intent_id = intent_id)
    /\ (Truthy(actor_id) => row.actor_id = actor_id)

\* A faulty sweep: it expires the clarifications and leaves their intents.
expire_open_clarifications_without_cascade(clar_t, intents_t, cutoff, intent_id, actor_id) ==
    [clarifications |->
        [i \in 1..Len(clar_t) |->
            IF expire_open_guard(clar_t[i], cutoff, intent_id, actor_id)
            THEN [clar_t[i] EXCEPT !.status = "expired"] ELSE clar_t[i]],
     intents |-> intents_t]

\* One transaction: expire the open clarifications older than the cutoff, then
\* the intents of those rows that are in needs_clarification.
expire_open_clarifications(clar_t, intents_t, cutoff, intent_id, actor_id) ==
    LET hit == {i \in 1..Len(clar_t) : expire_open_guard(clar_t[i], cutoff, intent_id, actor_id)}
        intent_ids == {clar_t[i].intent_id : i \in hit}
    IN  [clarifications |->
            [i \in 1..Len(clar_t) |->
                IF i \in hit THEN [clar_t[i] EXCEPT !.status = "expired"] ELSE clar_t[i]],
         intents |->
            [i \in 1..Len(intents_t) |->
                IF intents_t[i].intent_id \in intent_ids
                   /\ intents_t[i].status = "needs_clarification"
                THEN [intents_t[i] EXCEPT !.status = "expired"] ELSE intents_t[i]]]

\* A faulty expire_clarification: WHERE id = ..., whatever the status.
expire_clarification_any_status(clar_t, clarification_id) ==
    [i \in 1..Len(clar_t) |->
        IF clar_t[i].clarification_id = clarification_id
        THEN [clar_t[i] EXCEPT !.status = "expired"] ELSE clar_t[i]]

\* UPDATE clarifications SET status = 'expired' WHERE id = ... AND status = 'open'
expire_clarification(clar_t, clarification_id) ==
    [i \in 1..Len(clar_t) |->
        IF clar_t[i].clarification_id = clarification_id /\ clar_t[i].status = "open"
        THEN [clar_t[i] EXCEPT !.status = "expired"] ELSE clar_t[i]]

insert_intent_artifact(journal, payload) == Append(journal, payload)

\* ORDER BY received_at DESC: the journal is in received_at order.
get_latest_intent_artifact(journal, intent_id, kind, status) ==
    Last(SelectSeq(journal, LAMBDA row :
        row.intent_id = intent_id /\ row.kind = kind /\ row.status = status))


\* ------------------------------------------------------------------------
\* Journal writes and outcome lookups (app/main.py)
\* ------------------------------------------------------------------------
\* The artifact body: the packet with intent_id, correlation_id and
\* server_time set on it.
ArtifactBody(packet, intent_id, correlation_id, at) ==
    [packet |-> packet, intent_id |-> intent_id, correlation_id |-> correlation_id,
     server_time |-> Timestamp(at)]

\* A faulty persist_artifact: it hashes the packet it was given, not the
\* artifact body it stores.
persist_artifact_hashing_packet(journal, packet, kind, intent_type, action, intent_id, correlation_id, status, idempotency_key, at) ==
    LET artifact == ArtifactBody(packet, intent_id, correlation_id, at)
    IN  insert_intent_artifact(journal,
            [intent_id |-> intent_id, correlation_id |-> correlation_id, kind |-> kind,
             intent_type |-> intent_type, action |-> action, status |-> status,
             idempotency_key |-> idempotency_key,
             artifact_hash |-> sha256_hex(canonical_json(packet)),
             artifact |-> artifact])

persist_artifact(journal, packet, kind, intent_type, action, intent_id, correlation_id, status, idempotency_key, at) ==
    LET artifact == ArtifactBody(packet, intent_id, correlation_id, at)
    IN  insert_intent_artifact(journal,
            [intent_id |-> intent_id, correlation_id |-> correlation_id, kind |-> kind,
             intent_type |-> intent_type, action |-> action, status |-> status,
             idempotency_key |-> idempotency_key,
             artifact_hash |-> sha256_hex(canonical_json(artifact)),
             artifact |-> artifact])

\* IngestResponse.model_validate(artifact body): the envelope that was dumped
\* into the packet, under the artifact's intent_id and correlation_id.
ResponseOfArtifact(row) ==
    [row.artifact.packet EXCEPT !.intent_id = row.artifact.intent_id,
                                !.correlation_id = row.artifact.correlation_id]

\* None, or <<envelope>>: the latest executed, else failed, else rejected
\* intent artifact.
load_outcome_response(journal, intent_id) ==
    LET executed == get_latest_intent_artifact(journal, intent_id, "intent", "executed")
        failed == get_latest_intent_artifact(journal, intent_id, "intent", "failed")
        rejected == get_latest_intent_artifact(journal, intent_id, "intent", "rejected")
        artifact == IF executed # None THEN executed
                    ELSE IF failed # None THEN failed ELSE rejected
    IN  IF artifact = None THEN None ELSE Some(ResponseOfArtifact(artifact[1]))

\* intent_row.get("final_canonical") or {}
FinalOrEmpty(final_canonical) ==
    IF final_canonical = None THEN CanonicalForm(Null, NoFields, NoPending, << >>)
    ELSE final_canonical[1]

\* A faulty outcome_response_from_intent: it leaves the open clarification out
\* of a needs_clarification envelope and the plan out of a ready one.
outcome_response_bare(intent_row, clarification_row, outcome) ==
    IF intent_row.status \in {"executed", "failed"} /\ outcome # None THEN outcome[1]
    ELSE IngestResponse(
             IF intent_row.status \in {"executed", "failed", "needs_clarification", "ready"}
             THEN intent_row.status ELSE "accepted",
             intent_row.intent_id, intent_row.correlation_id)

\* outcome: what load_outcome_response returns when the status is executed or
\* failed (None otherwise).
outcome_response_from_intent(intent_row, clarification_row, outcome) ==
    LET intent_status == intent_row.status
        base(st) == IngestResponse(st, intent_row.intent_id, intent_row.correlation_id)
    IN  IF intent_status \in {"executed", "failed"}
        THEN IF outcome # None THEN outcome[1] ELSE base(intent_status)
        ELSE IF intent_status = "needs_clarification"
        THEN [base("needs_clarification") EXCEPT
                 !.clarification = IF clarification_row # None
                                   THEN Some(build_clarification_payload(clarification_row[1]))
                                   ELSE None]
        ELSE IF intent_status = "ready"
        THEN [base("ready") EXCEPT
                 !.plan = Some(build_plan(intent_row.intent_id, intent_row.correlation_id,
                                          FinalOrEmpty(intent_row.final_canonical)))]
        ELSE IF intent_status = "expired"
        THEN [base("rejected") EXCEPT !.error_code = "REJECTED",
                                   !.error = build_error_payload("INTENT_FAILED", 400)]
        ELSE base("accepted")


\* ------------------------------------------------------------------------
\* State
\* ------------------------------------------------------------------------
VARIABLES
    intents,            \* table intents
    clarifications,     \* table clarifications
    intent_artifacts,   \* table intent_artifacts, the journal
    now,                \* the clock, in hours
    settings,           \* app.state.settings
    gateway_log,        \* the requests the gateway has received
    requests            \* the HTTP requests, by request number

vars == <<intents, clarifications, intent_artifacts, now, settings, gateway_log, requests>>

RequestIds == 1..MaxRequests

NoPayload ==
    [schema_version |-> Null, intent_type |-> Null, intent_id |-> Null,
     correlation_id |-> Null, actor_id |-> Null, request_id |-> Null,
     fields |-> NoFields, confidence |-> NoNumber, title |-> Null]

NoAnswer == [choice_id |-> Null, answer_text |-> Null]

NoExecution ==
    [success |-> FALSE, status_code |-> 0, error_code |-> Null, error |-> Null,
     notion_task_id |-> Null, endpoint |-> Null, request_id |-> Null,
     idempotency_key |-> Null, action |-> Null]

\* No body text.
NoBody == [t |-> "none", s |-> "", ws |-> 0, m |-> << >>]

\* A request that has not arrived.  pc is the statement the request executes
\* next; the other fields are the handler's arguments and local variables.
\* status_code 0: no response yet.  answered: whether the guarded update of the
\* answer endpoint matched a row (None before it ran).  after: the requests
\* that had been answered when this one arrived.  writes: the rows this request
\* has written.  normalized: its calls of normalize_intent.  cutoff: the cutoff
\* of the expiry sweep of GET /v1/clarifications.  body: the text of the
\* request body, where the request is followed from the text on.
NoRequest ==
    [kind |-> "none", pc |-> "idle",
     payload |-> NoPayload, answer |-> NoAnswer, clarification_id |-> 0,
     target_intent_id |-> Null, x_actor_id |-> Null,
     idempotency_key |-> Null, request_id |-> Null, intent_id |-> Null,
     correlation_id |-> Null, trace_id |-> Null, actor_id |-> Null,
     created |-> FALSE, answered |-> None,
     intent_row |-> None, clarification |-> None, clarification_row |-> None,
     result |-> None, response_payload |-> None, execution |-> NoExecution,
     status_code |-> 0, response |-> None, listing |-> << >>,
     after |-> {}, writes |-> 0, normalized |-> 0, cutoff |-> NoNumber,
     body |-> NoBody]

Done(r) == requests[r].pc = "done"
InFlight(r) == requests[r].pc \notin {"idle", "done"}
\* Requests arrive in the order of their numbers.
NextToArrive(r) ==
    /\ requests[r].pc = "idle"
    /\ Cardinality({q \in RequestIds : InFlight(q)}) < MaxInFlight
    /\ \A q \in RequestIds : q < r => requests[q].pc # "idle"
Answered == {q \in RequestIds : Done(q)}

\* The handler returns: its local variables go, the response stays.
Return(req, status_code, response) ==
    [req EXCEPT !.pc = "done", !.status_code = status_code, !.response = response,
                !.intent_row = None, !.clarification = None, !.clarification_row = None,
                !.result = None, !.response_payload = None, !.execution = NoExecution]

\* A faulty cutoff: a clarification of exactly the expiry age is behind it.
Cutoff_including_boundary(at) == at - clarification_expiry_hours + 1

\* db.py line 224, main.py line 1049.
Cutoff(at) == at - clarification_expiry_hours

SettingsChoices ==
    { [execute_actions |-> FALSE, gateway_configured |-> FALSE],
      [execute_actions |-> TRUE, gateway_configured |-> FALSE],
      [execute_actions |-> TRUE, gateway_configured |-> TRUE] }

Init ==
    /\ intents = << >>
    /\ clarifications = << >>
    /\ intent_artifacts = << >>
    /\ now = 0
    /\ settings \in SettingsChoices
    /\ gateway_log = << >>
    /\ requests = [r \in RequestIds |-> NoRequest]

\* Time passes.
Tick(hours) ==
    /\ now + hours <= MaxTime
    /\ now' = now + hours
    /\ UNCHANGED <<intents, clarifications, intent_artifacts, settings, gateway_log, requests>>


\* ------------------------------------------------------------------------
\* POST /v1/intents (app/main.py, ingest_intent)
\* ------------------------------------------------------------------------
ReceiptOf(req, response_payload, overwrite) ==
    attach_receipt_fields(response_payload, req.intent_id, req.trace_id,
                          req.idempotency_key, overwrite)

\* attach_request_id, then attach_receipt_fields.
Stamped(req, response_payload) ==
    ReceiptOf(req, attach_request_id(response_payload, req.request_id), TRUE)

\* Lines 479-546: validation, identifiers, the idempotent upsert.
ingest_intent_upsert(r, payload, x_actor_id) ==
    /\ NextToArrive(r)
    /\ LET arrived == [NoRequest EXCEPT !.kind = "ingest", !.payload = payload,
                                        !.x_actor_id = x_actor_id, !.after = Answered]
           idempotency_key == compute_idempotency_key(payload)
           actor_id == Or(x_actor_id, payload.actor_id)
           up == upsert_intent_by_idempotency_key(intents,
                     IntentRow(Or(payload.intent_id, new_intent_id(r)), idempotency_key,
                               "received", payload,
                               Or(payload.correlation_id, new_correlation_id(r)),
                               new_trace_id(r), actor_id))
       IN  IF payload.schema_version \notin {Null, "v1"}
           THEN /\ requests' = [requests EXCEPT ![r] = Return(arrived, 400, None)]
                /\ UNCHANGED intents
           ELSE IF up.error
           THEN /\ requests' = [requests EXCEPT ![r] = Return(arrived, 503, None)]
                /\ UNCHANGED intents
           ELSE /\ intents' = up.table
                /\ requests' = [requests EXCEPT ![r] =
                       [arrived EXCEPT
                           !.idempotency_key = idempotency_key,
                           !.request_id = compute_request_id(payload, idempotency_key),
                           !.intent_id = up.row[1].intent_id,
                           !.correlation_id = up.row[1].correlation_id,
                           !.trace_id = Or(up.row[1].trace_id, new_trace_id(r)),
                           !.actor_id = actor_id,
                           !.created = up.created,
                           !.intent_row = up.row,
                           !.writes = IF up.created THEN 1 ELSE 0,
                           !.pc = IF ~up.created /\ Truthy(actor_id)
                                     /\ ~Truthy(up.row[1].actor_id)
                                  THEN "upsert_fill_actor" ELSE "journal_received"]]
    /\ UNCHANGED <<clarifications, intent_artifacts, now, settings, gateway_log>>

\* db.py lines 63-64: the read-back row has no actor; fill it in.  (Line 65
\* never applies: every row is inserted with a trace_id.)
ingest_intent_fill_actor(r) ==
    LET req == requests[r]
        updated == update_intent(intents, req.intent_id, [NoChange EXCEPT !.actor_id = req.actor_id])
    IN  /\ req.kind = "ingest" /\ req.pc = "upsert_fill_actor"
        /\ intents' = updated
        /\ requests' = [requests EXCEPT ![r] =
               [req EXCEPT !.intent_row = get_intent(updated, req.intent_id),
                           !.writes = @ + 1, !.pc = "journal_received"]]
        /\ UNCHANGED <<clarifications, intent_artifacts, now, settings, gateway_log>>

\* A faulty handler: it goes on to normalise without journalling `received`.
ingest_intent_skipping_received(r) ==
    LET req == requests[r]
    IN  /\ req.kind = "ingest" /\ req.pc = "journal_received"
        /\ requests' = [requests EXCEPT ![r] =
               [req EXCEPT !.pc = IF req.created THEN "normalize" ELSE "replay_load_outcome"]]
        /\ UNCHANGED <<intents, clarifications, intent_artifacts, now, settings, gateway_log>>

\* A faulty handler: it has no replay branch; every request goes on as if it
\* had created the intent.
ingest_intent_without_replay_branch(r) ==
    LET req == requests[r]
        packet_data == [payload |-> req.payload, request_id |-> req.request_id,
                        intent_id |-> req.intent_id, correlation_id |-> req.correlation_id,
                        trace_id |-> req.trace_id, actor_id |-> req.actor_id]
    IN  /\ req.kind = "ingest" /\ req.pc = "journal_received"
        /\ intent_artifacts' =
               persist_artifact(intent_artifacts, packet_data, "intent",
                                req.payload.intent_type, Null, req.intent_id,
                                req.correlation_id, "received", req.idempotency_key, now)
        /\ requests' = [requests EXCEPT ![r] =
               [req EXCEPT !.writes = @ + 1, !.pc = "normalize"]]
        /\ UNCHANGED <<intents, clarifications, now, settings, gateway_log>>

\* Lines 548-587: journal `received`; a replay with a cached envelope returns it.
ingest_intent_journal_received(r) ==
    LET req == requests[r]
        packet_data == [payload |-> req.payload, request_id |-> req.request_id,
                        intent_id |-> req.intent_id, correlation_id |-> req.correlation_id,
                        trace_id |-> req.trace_id, actor_id |-> req.actor_id]
        stored_envelope == req.intent_row[1].response_envelope_json
        journalled == [req EXCEPT !.writes = @ + 1]
    IN  /\ req.kind = "ingest" /\ req.pc = "journal_received"
        /\ intent_artifacts' =
               persist_artifact(intent_artifacts, packet_data, "intent",
                                req.payload.intent_type, Null, req.intent_id,
                                req.correlation_id, "received", req.idempotency_key, now)
        /\ requests' = [requests EXCEPT ![r] =
               IF req.created THEN [journalled EXCEPT !.pc = "normalize"]
               ELSE IF stored_envelope # None
               THEN Return(journalled, 200, Some(ReceiptOf(req, stored_envelope[1], FALSE)))
               ELSE [journalled EXCEPT !.pc = "replay_load_outcome"]]
        /\ UNCHANGED <<intents, clarifications, now, settings, gateway_log>>

\* Lines 588-605: no cached envelope; look for an outcome artifact.
ingest_intent_replay_load_outcome(r) ==
    LET req == requests[r]
        row == req.intent_row[1]
        outcome == load_outcome_response(intent_artifacts, req.intent_id)
    IN  /\ req.kind = "ingest" /\ req.pc = "replay_load_outcome"
        /\ requests' = [requests EXCEPT ![r] =
               IF outcome # None
               THEN Return(req, 200, Some(ReceiptOf(req, outcome[1], TRUE)))
               ELSE IF row.status = "needs_clarification"
               THEN [req EXCEPT !.pc = "replay_expire"]
               ELSE IF row.status \in {"executed", "failed"}
               THEN [req EXCEPT !.pc = "replay_load_outcome_again"]
               ELSE [req EXCEPT !.pc = "replay_journal",
                                !.response_payload =
                                    Some(Stamped(req, outcome_response_from_intent(row, None, None)))]]
        /\ UNCHANGED <<intents, clarifications, intent_artifacts, now, settings, gateway_log>>

\* Lines 353-362 under line 605: the status read at the upsert is executed or
\* failed; outcome_response_from_intent looks for the outcome artifact itself.
ingest_intent_replay_load_outcome_again(r) ==
    LET req == requests[r]
        outcome == load_outcome_response(intent_artifacts, req.intent_id)
    IN  /\ req.kind = "ingest" /\ req.pc = "replay_load_outcome_again"
        /\ requests' = [requests EXCEPT ![r] =
               [req EXCEPT !.pc = "replay_journal",
                           !.response_payload =
                               Some(Stamped(req, outcome_response_from_intent(
                                                     req.intent_row[1], None, outcome)))]]
        /\ UNCHANGED <<intents, clarifications, intent_artifacts, now, settings, gateway_log>>

\* Lines 598-604, db.py 162-163: the expiry sweep of get_open_clarification_for_intent.
ingest_intent_replay_expire(r) ==
    LET req == requests[r]
        swept == expire_open_clarifications(clarifications, intents, Cutoff(now),
                                            req.intent_id, req.actor_id)
    IN  /\ req.kind = "ingest" /\ req.pc = "replay_expire"
        /\ clarifications' = swept.clarifications
        /\ intents' = swept.intents
        /\ requests' = [requests EXCEPT ![r] =
               [req EXCEPT !.pc = "replay_select",
                           !.writes = IF swept.clarifications # clarifications THEN @ + 1 ELSE @]]
        /\ UNCHANGED <<intent_artifacts, now, settings, gateway_log>>

\* db.py 164-173, then lines 605-612.
ingest_intent_replay_select(r) ==
    LET req == requests[r]
        clarification_row == select_open_clarification_for_intent(
                                 clarifications, req.intent_id, req.actor_id)
    IN  /\ req.kind = "ingest" /\ req.pc = "replay_select"
        /\ requests' = [requests EXCEPT ![r] =
               [req EXCEPT !.pc = "replay_journal",
                           !.clarification_row = clarification_row,
                           !.response_payload =
                               Some(Stamped(req, outcome_response_from_intent(
                                                     req.intent_row[1], clarification_row, None)))]]
        /\ UNCHANGED <<intents, clarifications, intent_artifacts, now, settings, gateway_log>>

\* Lines 613-624: journal the reconstructed envelope under its status.
ingest_intent_replay_journal(r) ==
    LET req == requests[r]
    IN  /\ req.kind = "ingest" /\ req.pc = "replay_journal"
        /\ intent_artifacts' =
               persist_artifact(intent_artifacts, req.response_payload[1], "intent",
                                req.payload.intent_type, Null, req.intent_id,
                                req.correlation_id, req.response_payload[1].status,
                                req.idempotency_key, now)
        /\ requests' = [requests EXCEPT ![r] =
               [req EXCEPT !.pc = "replay_cache", !.writes = @ + 1]]
        /\ UNCHANGED <<intents, clarifications, now, settings, gateway_log>>

\* Lines 625-639: cache the reconstructed envelope and return it.
ingest_intent_replay_cache(r) ==
    LET req == requests[r]
    IN  /\ req.kind = "ingest" /\ req.pc = "replay_cache"
        /\ intents' = update_intent(intents, req.intent_id,
                          [NoChange EXCEPT !.response_envelope_json = req.response_payload])
        /\ requests' = [requests EXCEPT ![r] =
               Return([req EXCEPT !.writes = @ + 1], 200, req.response_payload)]
        /\ UNCHANGED <<clarifications, intent_artifacts, now, settings, gateway_log>>

\* Lines 641-666, 703-710, 907: normalise, then the first statement of the
\* branch taken: create the clarification, or set the status ready or failed.
ingest_intent_normalize(r) ==
    LET req == requests[r]
        result == normalize_intent(req.payload, Today(now))
        normalized == [req EXCEPT !.result = Some(result), !.normalized = @ + 1,
                                  !.writes = @ + 1]
        created_t == create_clarification(clarifications, req.intent_id,
                                          result.clarification[1], req.actor_id, now)
        ready_t == update_intent(intents, req.intent_id,
                       [NoChange EXCEPT !.status = "ready",
                                        !.canonical_draft = result.canonical_draft,
                                        !.final_canonical = result.final_canonical])
        failed_t == update_intent(intents, req.intent_id, [NoChange EXCEPT !.status = "failed"])
    IN  /\ req.kind = "ingest" /\ req.pc = "normalize"
        /\ IF result.status = "needs_clarification"
           THEN /\ clarifications' = created_t
                /\ intents' = intents
                /\ requests' = [requests EXCEPT ![r] =
                       [normalized EXCEPT !.pc = "clarify_update_intent",
                                          !.clarification_row = Some(Last(created_t)[1])]]
           ELSE IF result.status = "ready"
           THEN /\ intents' = ready_t
                /\ clarifications' = clarifications
                /\ requests' = [requests EXCEPT ![r] =
                       [normalized EXCEPT
                           !.pc = IF settings.execute_actions THEN "execute" ELSE "ready_journal",
                           !.intent_row = get_intent(ready_t, req.intent_id),
                           !.response_payload = Some(
                               [IngestResponse("ready", req.intent_id, req.correlation_id) EXCEPT
                                   !.plan = Some(build_plan(req.intent_id, req.correlation_id,
                                                            result.final_canonical[1]))])]]
           ELSE /\ intents' = failed_t
                /\ clarifications' = clarifications
                /\ requests' = [requests EXCEPT ![r] =
                       [normalized EXCEPT
                           !.pc = "rejected_journal",
                           !.intent_row = get_intent(failed_t, req.intent_id),
                           !.response_payload = Some(Stamped(req,
                               [IngestResponse("rejected", req.intent_id, req.correlation_id) EXCEPT
                                   !.error_code = Or(result.error_code, "REJECTED"),
                                   !.error = build_error_payload(
                                                 Or(result.error_code, "REJECTED"), 400)]))]]
        /\ UNCHANGED <<intent_artifacts, now, settings, gateway_log>>

\* Lines 660-680: the intent goes to needs_clarification with its draft.
ingest_intent_clarify_update_intent(r) ==
    LET req == requests[r]
        updated == update_intent(intents, req.intent_id,
                       [NoChange EXCEPT !.status = "needs_clarification",
                                        !.canonical_draft = req.result[1].canonical_draft,
                                        !.actor_id = req.actor_id])
    IN  /\ req.kind = "ingest" /\ req.pc = "clarify_update_intent"
        /\ intents' = updated
        /\ requests' = [requests EXCEPT ![r] =
               [req EXCEPT
                   !.pc = "clarify_journal", !.writes = @ + 1,
                   !.intent_row = get_intent(updated, req.intent_id),
                   !.response_payload = Some(Stamped(req,
                       [IngestResponse("needs_clarification", req.intent_id, req.correlation_id)
                           EXCEPT !.clarification =
                               Some(build_clarification_payload(req.clarification_row[1]))]))]]
        /\ UNCHANGED <<clarifications, intent_artifacts, now, settings, gateway_log>>

\* Lines 681-695.
ingest_intent_clarify_journal(r) ==
    LET req == requests[r]
    IN  /\ req.kind = "ingest" /\ req.pc = "clarify_journal"
        /\ intent_artifacts' =
               persist_artifact(intent_artifacts,
                   [status |-> "needs_clarification",
                    clarification |-> req.response_payload[1].clarification[1],
                    canonical_draft |-> req.intent_row[1].canonical_draft],
                   "intent", req.payload.intent_type, Null, req.intent_id,
                   req.correlation_id, "needs_clarification", req.idempotency_key, now)
        /\ requests' = [requests EXCEPT ![r] = [req EXCEPT !.pc = "cache", !.writes = @ + 1]]
        /\ UNCHANGED <<intents, clarifications, now, settings, gateway_log>>

\* Lines 928-938.
ingest_intent_rejected_journal(r) ==
    LET req == requests[r]
    IN  /\ req.kind = "ingest" /\ req.pc = "rejected_journal"
        /\ intent_artifacts' =
               persist_artifact(intent_artifacts, req.response_payload[1], "intent",
                                req.payload.intent_type, Null, req.intent_id,
                                req.correlation_id, "rejected", req.idempotency_key, now)
        /\ requests' = [requests EXCEPT ![r] = [req EXCEPT !.pc = "cache", !.writes = @ + 1]]
        /\ UNCHANGED <<intents, clarifications, now, settings, gateway_log>>

\* Lines 871-892: the `ready` artifact, also written after a successful execution.
ingest_intent_ready_journal(r) ==
    LET req == requests[r]
        response_payload == Stamped(req, req.response_payload[1])
    IN  /\ req.kind = "ingest" /\ req.pc = "ready_journal"
        /\ intent_artifacts' =
               persist_artifact(intent_artifacts,
                   [status |-> "ready",
                    final_canonical |-> req.intent_row[1].final_canonical,
                    plan |-> response_payload.plan[1]],
                   "intent", req.payload.intent_type, Null, req.intent_id,
                   req.correlation_id, "ready", req.idempotency_key, now)
        /\ requests' = [requests EXCEPT ![r] =
               [req EXCEPT !.pc = "cache", !.writes = @ + 1,
                           !.response_payload = Some(response_payload)]]
        /\ UNCHANGED <<intents, clarifications, now, settings, gateway_log>>

\* A faulty handler: it returns the envelope without caching it.
ingest_intent_cache_returning_only(r) ==
    LET req == requests[r]
    IN  /\ req.kind = "ingest" /\ req.pc = "cache"
        /\ requests' = [requests EXCEPT ![r] = Return(req, 200, req.response_payload)]
        /\ UNCHANGED <<intents, clarifications, intent_artifacts, now, settings, gateway_log>>

\* Lines 696-701, 761-772, 824-835, 893-905, 939-950: cache the envelope and
\* return it.
ingest_intent_cache(r) ==
    LET req == requests[r]
    IN  /\ req.kind = "ingest" /\ req.pc = "cache"
        /\ intents' = update_intent(intents, req.intent_id,
                          [NoChange EXCEPT !.response_envelope_json = req.response_payload])
        /\ requests' = [requests EXCEPT ![r] =
               Return([req EXCEPT !.writes = @ + 1], 200, req.response_payload)]
        /\ UNCHANGED <<clarifications, intent_artifacts, now, settings, gateway_log>>


\* ------------------------------------------------------------------------
\* Plan execution (app/main.py, execute_plan and lines 718-870)
\* ------------------------------------------------------------------------
\* What a POST to the gateway can come to: raised (no response: timeout,
\* connection error), or a status code with a JSON body that may hold an error
\* object, "status": "error", and a page id under data.
GatewayReply(raised, status_code, error_code, status_error, notion_task_id) ==
    [raised |-> raised, status_code |-> status_code, error_code |-> error_code,
     status_error |-> status_error, notion_task_id |-> notion_task_id]

GatewayReplies ==
    { GatewayReply(FALSE, 200, Null, FALSE, "page_1"),
      GatewayReply(FALSE, 500, "tasks_create_failed", FALSE, Null),
      GatewayReply(FALSE, 200, Null, TRUE, Null),
      GatewayReply(TRUE, 0, Null, FALSE, Null) }

build_gateway_request(action_packet, actor_id, request_id) ==
    [endpoint |-> IF action_packet.action = "notion.tasks.update"
                  THEN "/v1/notion/tasks/update" ELSE "/v1/notion/tasks/create",
     request_id |-> request_id,
     idempotency_key |-> Or(action_packet.idempotency_key,
                            compute_action_idempotency_key(action_packet.action,
                                                           action_packet.payload)),
     actor |-> Or(actor_id, "intent_normaliser"),
     payload |-> action_packet.payload]

\* Lines 241-278: the result of one action, from the gateway's reply.
ExecutionResult(action_packet, request_envelope, reply) ==
    [action |-> action_packet.action, endpoint |-> request_envelope.endpoint,
     request_id |-> request_envelope.request_id,
     idempotency_key |-> request_envelope.idempotency_key,
     status_code |-> IF reply.raised THEN 0 ELSE reply.status_code,
     success |-> /\ ~reply.raised
                 /\ reply.status_code >= 200 /\ reply.status_code < 300
                 /\ reply.error_code = Null
                 /\ ~reply.status_error,
     error_code |-> IF reply.raised THEN Null ELSE reply.error_code,
     error |-> IF reply.raised THEN "exception"
               ELSE IF reply.error_code # Null THEN "message" ELSE Null,
     notion_task_id |-> IF reply.raised THEN Null ELSE reply.notion_task_id]

\* Lines 220-221, 728-749: the gateway is not configured; execute_plan raises
\* before any call and the intent fails.
ingest_intent_execution_not_configured(r) ==
    LET req == requests[r]
    IN  /\ req.kind = "ingest" /\ req.pc = "execute"
        /\ ~settings.gateway_configured
        /\ intents' = update_intent(intents, req.intent_id, [NoChange EXCEPT !.status = "failed"])
        /\ requests' = [requests EXCEPT ![r] =
               [req EXCEPT
                   !.pc = "failed_journal", !.writes = @ + 1,
                   !.response_payload = Some(Stamped(req,
                       [IngestResponse("failed", req.intent_id, req.correlation_id) EXCEPT
                           !.error_code = "EXECUTION_NOT_CONFIGURED",
                           !.error = build_error_payload("EXECUTION_NOT_CONFIGURED", 500)]))]]
        /\ UNCHANGED <<clarifications, intent_artifacts, now, settings, gateway_log>>

\* A faulty execute_plan: it posts without looking at the gateway settings.
execute_plan_post_unconfigured(r, reply) ==
    LET req == requests[r]
        action_packet == req.response_payload[1].plan[1][1]
        request_envelope == build_gateway_request(action_packet, req.actor_id, req.request_id)
    IN  /\ req.kind = "ingest" /\ req.pc = "execute"
        /\ gateway_log' = Append(gateway_log,
               [request |-> request_envelope, intent_id |-> req.intent_id,
                intent_idempotency_key |-> req.idempotency_key, from |-> r])
        /\ requests' = [requests EXCEPT ![r] =
               [req EXCEPT !.pc = "execute_journal",
                           !.execution = ExecutionResult(action_packet, request_envelope, reply)]]
        /\ UNCHANGED <<intents, clarifications, intent_artifacts, now, settings>>

\* Lines 238-279: one POST to the gateway for the plan's action.
execute_plan_post(r, reply) ==
    LET req == requests[r]
        action_packet == req.response_payload[1].plan[1][1]
        request_envelope == build_gateway_request(action_packet, req.actor_id, req.request_id)
    IN  /\ req.kind = "ingest" /\ req.pc = "execute"
        /\ settings.gateway_configured
        /\ gateway_log' = Append(gateway_log,
               [request |-> request_envelope, intent_id |-> req.intent_id,
                intent_idempotency_key |-> req.idempotency_key, from |-> r])
        /\ requests' = [requests EXCEPT ![r] =
               [req EXCEPT !.pc = "execute_journal",
                           !.execution = ExecutionResult(action_packet, request_envelope, reply)]]
        /\ UNCHANGED <<intents, clarifications, intent_artifacts, now, settings>>

\* Lines 281-301: the action artifact.
execute_plan_journal(r) ==
    LET req == requests[r]
        result == req.execution
    IN  /\ req.kind = "ingest" /\ req.pc = "execute_journal"
        /\ intent_artifacts' =
               persist_artifact(intent_artifacts,
                   [request |-> [request_id |-> result.request_id,
                                 idempotency_key |-> result.idempotency_key],
                    response |-> [status_code |-> result.status_code, error |-> result.error,
                                  error_code |-> result.error_code],
                    success |-> result.success],
                   "action", Null, result.action, req.intent_id, req.correlation_id,
                   IF result.success THEN "executed" ELSE "failed",
                   result.idempotency_key, now)
        /\ requests' = [requests EXCEPT ![r] =
               [req EXCEPT !.pc = "execution_update", !.writes = @ + 1]]
        /\ UNCHANGED <<intents, clarifications, now, settings, gateway_log>>

\* A faulty handler: its failed envelope names EXECUTION_FAILED and 502
\* whatever the failing action reported.
ingest_intent_execution_update_hiding_failure(r) ==
    LET req == requests[r]
        result == req.execution
        failed == [IngestResponse("failed", req.intent_id, req.correlation_id) EXCEPT
                      !.error_code = "EXECUTION_FAILED",
                      !.details = [NoDetails EXCEPT !.execution_results = <<result>>],
                      !.error = build_error_payload("EXECUTION_FAILED", 502)]
        executed == [req.response_payload[1] EXCEPT
                        !.status = "executed",
                        !.details = [execution_results |-> <<result>>,
                                     notion_task_id |-> result.notion_task_id,
                                     request_id |-> req.request_id]]
    IN  /\ req.kind = "ingest" /\ req.pc = "execution_update"
        /\ intents' = update_intent(intents, req.intent_id,
               [NoChange EXCEPT !.status = IF result.success THEN "executed" ELSE "failed"])
        /\ requests' = [requests EXCEPT ![r] =
               [req EXCEPT
                   !.pc = IF result.success THEN "executed_journal" ELSE "failed_journal",
                   !.writes = @ + 1,
                   !.response_payload =
                       IF result.success THEN Some(ReceiptOf(req, executed, TRUE))
                       ELSE Some(Stamped(req, failed))]]
        /\ UNCHANGED <<clarifications, intent_artifacts, now, settings, gateway_log>>

\* Lines 774-812 and 837-854: the intent goes to failed or to executed.
ingest_intent_execution_update(r) ==
    LET req == requests[r]
        result == req.execution
        status_code == IF result.status_code # 0 THEN result.status_code ELSE 502
        failed == [IngestResponse("failed", req.intent_id, req.correlation_id) EXCEPT
                      !.error_code = "EXECUTION_FAILED",
                      !.details = [NoDetails EXCEPT !.execution_results = <<result>>],
                      !.error = [build_error_payload(
                                     Or(result.error_code, "EXECUTION_FAILED"), status_code)
                                 EXCEPT !.endpoint = result.endpoint,
                                        !.request_id = result.request_id]]
        executed == [req.response_payload[1] EXCEPT
                        !.status = "executed",
                        !.details = [execution_results |-> <<result>>,
                                     notion_task_id |-> result.notion_task_id,
                                     request_id |-> req.request_id]]
    IN  /\ req.kind = "ingest" /\ req.pc = "execution_update"
        /\ intents' = update_intent(intents, req.intent_id,
               [NoChange EXCEPT !.status = IF result.success THEN "executed" ELSE "failed"])
        /\ requests' = [requests EXCEPT ![r] =
               [req EXCEPT
                   !.pc = IF result.success THEN "executed_journal" ELSE "failed_journal",
                   !.writes = @ + 1,
                   !.response_payload =
                       IF result.success THEN Some(ReceiptOf(req, executed, TRUE))
                       ELSE Some(Stamped(req, failed))]]
        /\ UNCHANGED <<clarifications, intent_artifacts, now, settings, gateway_log>>

\* Lines 750-760 and 813-823.
ingest_intent_failed_journal(r) ==
    LET req == requests[r]
    IN  /\ req.kind = "ingest" /\ req.pc = "failed_journal"
        /\ intent_artifacts' =
               persist_artifact(intent_artifacts, req.response_payload[1], "intent",
                                req.payload.intent_type, Null, req.intent_id,
                                req.correlation_id, "failed", req.idempotency_key, now)
        /\ requests' = [requests EXCEPT ![r] = [req EXCEPT !.pc = "cache", !.writes = @ + 1]]
        /\ UNCHANGED <<intents, clarifications, now, settings, gateway_log>>

\* Lines 855-865.
ingest_intent_executed_journal(r) ==
    LET req == requests[r]
    IN  /\ req.kind = "ingest" /\ req.pc = "executed_journal"
        /\ intent_artifacts' =
               persist_artifact(intent_artifacts, req.response_payload[1], "intent",
                                req.payload.intent_type, Null, req.intent_id,
                                req.correlation_id, "executed", req.idempotency_key, now)
        /\ requests' = [requests EXCEPT ![r] =
               [req EXCEPT !.pc = "executed_cache", !.writes = @ + 1]]
        /\ UNCHANGED <<intents, clarifications, now, settings, gateway_log>>

\* Lines 866-870: cache the executed envelope; the handler goes on to line 871.
ingest_intent_executed_cache(r) ==
    LET req == requests[r]
    IN  /\ req.kind = "ingest" /\ req.pc = "executed_cache"
        /\ intents' = update_intent(intents, req.intent_id,
                          [NoChange EXCEPT !.response_envelope_json = req.response_payload])
        /\ requests' = [requests EXCEPT ![r] =
               [req EXCEPT !.pc = "ready_journal", !.writes = @ + 1]]
        /\ UNCHANGED <<clarifications, intent_artifacts, now, settings, gateway_log>>


\* ------------------------------------------------------------------------
\* POST /v1/clarifications/{clarification_id}/answer
\* (app/main.py, answer_clarification_endpoint)
\* ------------------------------------------------------------------------
\* intent_row.get("canonical_draft") or {}
DraftOrEmpty(canonical_draft) ==
    IF canonical_draft = None THEN CanonicalForm(Null, NoFields, NoPending, << >>)
    ELSE canonical_draft[1]

\* The draft as the packet normalize_intent reads: it has no confidence and no
\* top-level title.
PacketOfDraft(draft) ==
    [intent_type |-> draft.intent_type, fields |-> draft.fields,
     confidence |-> NoNumber, title |-> Null]

\* A faulty handler: every answer to an answered clarification is taken for a
\* replay of the stored answer, whatever its payload.
answer_clarification_endpoint_get_any_payload(r, clarification_id, answer, x_actor_id) ==
    LET arrived == [NoRequest EXCEPT !.kind = "answer", !.answer = answer,
                                     !.clarification_id = clarification_id,
                                     !.x_actor_id = x_actor_id, !.after = Answered]
        clarification == get_clarification(clarifications, clarification_id)
        row == clarification[1]
        found == [arrived EXCEPT !.clarification = clarification,
                                 !.target_intent_id = row.intent_id]
    IN  /\ NextToArrive(r)
        /\ requests' = [requests EXCEPT ![r] =
               IF ~Truthy(answer.choice_id) /\ ~Truthy(answer.answer_text)
               THEN Return(arrived, 400, None)
               ELSE IF clarification = None
               THEN Return(arrived, 404, None)
               ELSE IF Truthy(x_actor_id) /\ Truthy(row.actor_id) /\ row.actor_id # x_actor_id
               THEN Return(arrived, 404, None)
               ELSE IF row.status = "open" /\ row.created_at < Cutoff(now)
               THEN [found EXCEPT !.pc = "answer_expire"]
               ELSE IF row.status = "open"
               THEN [found EXCEPT !.pc = "answer_update"]
               ELSE IF row.status = "answered"
               THEN [found EXCEPT !.pc = "answer_replay_get_intent"]
               ELSE Return(arrived, 409, None)]
        /\ UNCHANGED <<intents, clarifications, intent_artifacts, now, settings, gateway_log>>

\* A faulty first step: it does not compare the X-Actor-Id header with the
\* actor of the clarification.
answer_clarification_endpoint_get_any_actor(r, clarification_id, answer, x_actor_id) ==
    LET arrived == [NoRequest EXCEPT !.kind = "answer", !.answer = answer,
                                     !.clarification_id = clarification_id,
                                     !.x_actor_id = x_actor_id, !.after = Answered]
        clarification == get_clarification(clarifications, clarification_id)
        row == clarification[1]
        found == [arrived EXCEPT !.clarification = clarification,
                                 !.target_intent_id = row.intent_id]
    IN  /\ NextToArrive(r)
        /\ requests' = [requests EXCEPT ![r] =
               IF ~Truthy(answer.choice_id) /\ ~Truthy(answer.answer_text)
               THEN Return(arrived, 400, None)
               ELSE IF clarification = None
               THEN Return(arrived, 404, None)
               ELSE IF row.status = "open" /\ row.created_at < Cutoff(now)
               THEN [found EXCEPT !.pc = "answer_expire"]
               ELSE IF row.status = "open"
               THEN [found EXCEPT !.pc = "answer_update"]
               ELSE IF row.status = "answered" /\ row.answer = Some(answer)
               THEN [found EXCEPT !.pc = "answer_replay_get_intent"]
               ELSE Return(arrived, 409, None)]
        /\ UNCHANGED <<intents, clarifications, intent_artifacts, now, settings, gateway_log>>

\* Lines 1039-1071: validation, the row, the actor check, and the branch taken
\* on the row's status and age.
answer_clarification_endpoint_get(r, clarification_id, answer, x_actor_id) ==
    LET arrived == [NoRequest EXCEPT !.kind = "answer", !.answer = answer,
                                     !.clarification_id = clarification_id,
                                     !.x_actor_id = x_actor_id, !.after = Answered]
        clarification == get_clarification(clarifications, clarification_id)
        row == clarification[1]
        found == [arrived EXCEPT !.clarification = clarification,
                                 !.target_intent_id = row.intent_id]
    IN  /\ NextToArrive(r)
        /\ requests' = [requests EXCEPT ![r] =
               IF ~Truthy(answer.choice_id) /\ ~Truthy(answer.answer_text)
               THEN Return(arrived, 400, None)
               ELSE IF clarification = None
               THEN Return(arrived, 404, None)
               ELSE IF Truthy(x_actor_id) /\ Truthy(row.actor_id) /\ row.actor_id # x_actor_id
               THEN Return(arrived, 404, None)
               ELSE IF row.status = "open" /\ row.created_at < Cutoff(now)
               THEN [found EXCEPT !.pc = "answer_expire"]
               ELSE IF row.status = "open"
               THEN [found EXCEPT !.pc = "answer_update"]
               ELSE IF row.status = "answered" /\ row.answer = Some(answer)
               THEN [found EXCEPT !.pc = "answer_replay_get_intent"]
               ELSE Return(arrived, 409, None)]
        /\ UNCHANGED <<intents, clarifications, intent_artifacts, now, settings, gateway_log>>

\* Line 1051.
answer_clarification_endpoint_expire(r) ==
    LET req == requests[r]
        expired == expire_clarification(clarifications, req.clarification_id)
    IN  /\ req.kind = "answer" /\ req.pc = "answer_expire"
        /\ clarifications' = expired
        /\ requests' = [requests EXCEPT ![r] =
               [req EXCEPT !.pc = "answer_expire_intent",
                           !.writes = IF expired # clarifications THEN @ + 1 ELSE @]]
        /\ UNCHANGED <<intents, intent_artifacts, now, settings, gateway_log>>

\* Lines 1052-1053.
answer_clarification_endpoint_expire_intent(r) ==
    LET req == requests[r]
    IN  /\ req.kind = "answer" /\ req.pc = "answer_expire_intent"
        /\ intents' = update_intent(intents, req.target_intent_id,
                                    [NoChange EXCEPT !.status = "expired"])
        /\ requests' = [requests EXCEPT ![r] = Return([req EXCEPT !.writes = @ + 1], 409, None)]
        /\ UNCHANGED <<clarifications, intent_artifacts, now, settings, gateway_log>>

\* Lines 1072-1079: the guarded update; the request that finds the row no
\* longer open gets 409.
answer_clarification_endpoint_update(r) ==
    LET req == requests[r]
        updated == answer_clarification(clarifications, req.clarification_id, req.answer, now)
        answered == updated.row
    IN  /\ req.kind = "answer" /\ req.pc = "answer_update"
        /\ clarifications' = updated.clarifications
        /\ requests' = [requests EXCEPT ![r] =
               IF answered # None
               THEN [req EXCEPT !.pc = "answer_get_intent", !.answered = Some(TRUE),
                                !.writes = @ + 1]
               ELSE Return([req EXCEPT !.answered = Some(FALSE)], 409, None)]
        /\ UNCHANGED <<intents, intent_artifacts, now, settings, gateway_log>>

\* Lines 1081-1083.
answer_clarification_endpoint_get_intent(r) ==
    LET req == requests[r]
        intent_row == get_intent(intents, req.target_intent_id)
    IN  /\ req.kind = "answer" /\ req.pc = "answer_get_intent"
        /\ requests' = [requests EXCEPT ![r] =
               IF intent_row = None THEN Return(req, 404, None)
               ELSE [req EXCEPT !.pc = "answer_journal", !.intent_row = intent_row,
                                !.intent_id = intent_row[1].intent_id,
                                !.correlation_id = intent_row[1].correlation_id]]
        /\ UNCHANGED <<intents, clarifications, intent_artifacts, now, settings, gateway_log>>

\* Lines 1085-1099.
answer_clarification_endpoint_journal(r) ==
    LET req == requests[r]
    IN  /\ req.kind = "answer" /\ req.pc = "answer_journal"
        /\ intent_artifacts' =
               persist_artifact(intent_artifacts,
                   [clarification_id |-> req.clarification_id, intent_id |-> req.intent_id,
                    answer |-> req.answer],
                   "intent", Null, Null, req.intent_id, req.correlation_id,
                   "clarification_answered", Null, now)
        /\ requests' = [requests EXCEPT ![r] =
               [req EXCEPT !.pc = "answer_normalize", !.writes = @ + 1]]
        /\ UNCHANGED <<intents, clarifications, now, settings, gateway_log>>

\* Lines 1101-1133, 1159-1172, 1190-1203: apply the answer, normalise again,
\* then the first statement of the branch taken.
answer_clarification_endpoint_normalize(r) ==
    LET req == requests[r]
        intent_row == req.intent_row[1]
        updated_packet == apply_clarification_answer(
                              DraftOrEmpty(intent_row.canonical_draft), req.answer)
        result == normalize_intent(PacketOfDraft(updated_packet), Today(now))
        normalized == [req EXCEPT !.result = Some(result), !.normalized = @ + 1,
                                  !.writes = @ + 1]
        created_t == create_clarification(clarifications, req.intent_id,
                                          result.clarification[1], intent_row.actor_id, now)
        ready_t == update_intent(intents, req.intent_id,
                       [NoChange EXCEPT !.status = "ready",
                                        !.canonical_draft = result.canonical_draft,
                                        !.final_canonical = result.final_canonical])
        failed_t == update_intent(intents, req.intent_id, [NoChange EXCEPT !.status = "failed"])
    IN  /\ req.kind = "answer" /\ req.pc = "answer_normalize"
        /\ IF result.status = "needs_clarification"
           THEN /\ clarifications' = created_t
                /\ intents' = intents
                /\ requests' = [requests EXCEPT ![r] =
                       [normalized EXCEPT !.pc = "answer_clarify_update_intent",
                                          !.clarification_row = Some(Last(created_t)[1])]]
           ELSE IF result.status = "ready"
           THEN /\ intents' = ready_t
                /\ clarifications' = clarifications
                /\ requests' = [requests EXCEPT ![r] =
                       [normalized EXCEPT
                           !.pc = "answer_ready_journal",
                           !.intent_row = get_intent(ready_t, req.intent_id),
                           !.response_payload = Some(
                               [IngestResponse("ready", req.intent_id, req.correlation_id) EXCEPT
                                   !.plan = Some(build_plan(req.intent_id, req.correlation_id,
                                                            result.final_canonical[1]))])]]
           ELSE /\ intents' = failed_t
                /\ clarifications' = clarifications
                /\ requests' = [requests EXCEPT ![r] =
                       [normalized EXCEPT
                           !.pc = "answer_rejected_journal",
                           !.intent_row = get_intent(failed_t, req.intent_id),
                           !.response_payload = Some(
                               [IngestResponse("rejected", req.intent_id, req.correlation_id) EXCEPT
                                   !.error_code = Or(result.error_code, "REJECTED"),
                                   !.error = build_error_payload(
                                                 Or(result.error_code, "REJECTED"), 400)])]]
        /\ UNCHANGED <<intent_artifacts, now, settings, gateway_log>>

\* Lines 1127-1140.
answer_clarification_endpoint_clarify_update_intent(r) ==
    LET req == requests[r]
        updated == update_intent(intents, req.intent_id,
                       [NoChange EXCEPT !.status = "needs_clarification",
                                        !.canonical_draft = req.result[1].canonical_draft,
                                        !.actor_id = req.intent_row[1].actor_id])
    IN  /\ req.kind = "answer" /\ req.pc = "answer_clarify_update_intent"
        /\ intents' = updated
        /\ requests' = [requests EXCEPT ![r] =
               [req EXCEPT
                   !.pc = "answer_clarify_journal", !.writes = @ + 1,
                   !.intent_row = get_intent(updated, req.intent_id),
                   !.response_payload = Some(
                       [IngestResponse("needs_clarification", req.intent_id, req.correlation_id)
                           EXCEPT !.clarification =
                               Some(build_clarification_payload(req.clarification_row[1]))])]]
        /\ UNCHANGED <<clarifications, intent_artifacts, now, settings, gateway_log>>

\* Lines 1141-1156.
answer_clarification_endpoint_clarify_journal(r) ==
    LET req == requests[r]
    IN  /\ req.kind = "answer" /\ req.pc = "answer_clarify_journal"
        /\ intent_artifacts' =
               persist_artifact(intent_artifacts,
                   [status |-> "needs_clarification",
                    clarification |-> req.response_payload[1].clarification[1],
                    canonical_draft |-> req.intent_row[1].canonical_draft],
                   "intent", Null, Null, req.intent_id, req.correlation_id,
                   "needs_clarification", Null, now)
        /\ requests' = [requests EXCEPT ![r] =
               Return([req EXCEPT !.writes = @ + 1], 200, req.response_payload)]
        /\ UNCHANGED <<intents, clarifications, now, settings, gateway_log>>

\* Lines 1173-1188.
answer_clarification_endpoint_ready_journal(r) ==
    LET req == requests[r]
    IN  /\ req.kind = "answer" /\ req.pc = "answer_ready_journal"
        /\ intent_artifacts' =
               persist_artifact(intent_artifacts,
                   [status |-> "ready",
                    final_canonical |-> req.intent_row[1].final_canonical,
                    plan |-> req.response_payload[1].plan[1]],
                   "intent", Null, Null, req.intent_id, req.correlation_id,
                   "ready", Null, now)
        /\ requests' = [requests EXCEPT ![r] =
               Return([req EXCEPT !.writes = @ + 1], 200, req.response_payload)]
        /\ UNCHANGED <<intents, clarifications, now, settings, gateway_log>>

\* Lines 1204-1215.
answer_clarification_endpoint_rejected_journal(r) ==
    LET req == requests[r]
    IN  /\ req.kind = "answer" /\ req.pc = "answer_rejected_journal"
        /\ intent_artifacts' =
               persist_artifact(intent_artifacts, req.response_payload[1], "intent",
                                Null, Null, req.intent_id, req.correlation_id,
                                "rejected", Null, now)
        /\ requests' = [requests EXCEPT ![r] =
               Return([req EXCEPT !.writes = @ + 1], 200, req.response_payload)]
        /\ UNCHANGED <<intents, clarifications, now, settings, gateway_log>>

\* Lines 1058-1069: the same answer again; the intent's present outcome.
answer_clarification_endpoint_replay_get_intent(r) ==
    LET req == requests[r]
        intent_row == get_intent(intents, req.target_intent_id)
    IN  /\ req.kind = "answer" /\ req.pc = "answer_replay_get_intent"
        /\ requests' = [requests EXCEPT ![r] =
               IF intent_row = None THEN Return(req, 404, None)
               ELSE IF intent_row[1].status = "needs_clarification"
               THEN [req EXCEPT !.pc = "outcome_expire", !.intent_row = intent_row,
                                !.intent_id = intent_row[1].intent_id]
               ELSE IF intent_row[1].status \in {"executed", "failed"}
               THEN [req EXCEPT !.pc = "outcome_load", !.intent_row = intent_row,
                                !.intent_id = intent_row[1].intent_id]
               ELSE Return(req, 200,
                           Some(outcome_response_from_intent(intent_row[1], None, None)))]
        /\ UNCHANGED <<intents, clarifications, intent_artifacts, now, settings, gateway_log>>

\* ------------------------------------------------------------------------
\* GET /v1/intents/{intent_id} (app/main.py, get_intent_endpoint)
\* ------------------------------------------------------------------------
\* Lines 1224-1237.
get_intent_endpoint(r, intent_id, x_actor_id) ==
    LET arrived == [NoRequest EXCEPT !.kind = "get", !.target_intent_id = intent_id,
                                     !.x_actor_id = x_actor_id, !.after = Answered]
        intent_row == get_intent(intents, intent_id)
        found == [arrived EXCEPT !.intent_row = intent_row, !.intent_id = intent_id]
    IN  /\ NextToArrive(r)
        /\ requests' = [requests EXCEPT ![r] =
               IF intent_row = None THEN Return(arrived, 404, None)
               ELSE IF /\ Truthy(x_actor_id) /\ Truthy(intent_row[1].actor_id)
                       /\ intent_row[1].actor_id # x_actor_id
               THEN Return(arrived, 404, None)
               ELSE IF intent_row[1].status = "needs_clarification"
               THEN [found EXCEPT !.pc = "outcome_expire"]
               ELSE IF intent_row[1].status \in {"executed", "failed"}
               THEN [found EXCEPT !.pc = "outcome_load"]
               ELSE Return(arrived, 200,
                           Some(outcome_response_from_intent(intent_row[1], None, None)))]
        /\ UNCHANGED <<intents, clarifications, intent_artifacts, now, settings, gateway_log>>

\* db.py 162-163 under main.py 1063 and 1231: the expiry sweep of
\* get_open_clarification_for_intent.
outcome_expire(r) ==
    LET req == requests[r]
        swept == expire_open_clarifications(clarifications, intents, Cutoff(now),
                                            req.intent_id, req.x_actor_id)
    IN  /\ req.kind \in {"answer", "get"} /\ req.pc = "outcome_expire"
        /\ clarifications' = swept.clarifications
        /\ intents' = swept.intents
        /\ requests' = [requests EXCEPT ![r] =
               [req EXCEPT !.pc = "outcome_select",
                           !.writes = IF swept.clarifications # clarifications THEN @ + 1 ELSE @]]
        /\ UNCHANGED <<intent_artifacts, now, settings, gateway_log>>

\* db.py 164-173, then main.py 1069 and 1237.
outcome_select(r) ==
    LET req == requests[r]
        clarification_row == select_open_clarification_for_intent(
                                 clarifications, req.intent_id, req.x_actor_id)
    IN  /\ req.kind \in {"answer", "get"} /\ req.pc = "outcome_select"
        /\ requests' = [requests EXCEPT ![r] =
               Return(req, 200, Some(outcome_response_from_intent(
                                         req.intent_row[1], clarification_row, None)))]
        /\ UNCHANGED <<intents, clarifications, intent_artifacts, now, settings, gateway_log>>

\* main.py 353-362 under 1069 and 1237: the status is executed or failed.
outcome_load(r) ==
    LET req == requests[r]
        outcome == load_outcome_response(intent_artifacts, req.intent_id)
    IN  /\ req.kind \in {"answer", "get"} /\ req.pc = "outcome_load"
        /\ requests' = [requests EXCEPT ![r] =
               Return(req, 200, Some(outcome_response_from_intent(
                                         req.intent_row[1], None, outcome)))]
        /\ UNCHANGED <<intents, clarifications, intent_artifacts, now, settings, gateway_log>>

\* ------------------------------------------------------------------------
\* GET /v1/clarifications (app/main.py, list_clarifications)
\* ------------------------------------------------------------------------
\* db.py 182-183: the expiry sweep of list_open_clarifications.
list_clarifications_expire(r, x_actor_id) ==
    LET arrived == [NoRequest EXCEPT !.kind = "list", !.x_actor_id = x_actor_id,
                                     !.after = Answered]
        swept == expire_open_clarifications(clarifications, intents, Cutoff(now),
                                            Null, x_actor_id)
    IN  /\ NextToArrive(r)
        /\ clarifications' = swept.clarifications
        /\ intents' = swept.intents
        /\ requests' = [requests EXCEPT ![r] =
               [arrived EXCEPT !.pc = "list_select", !.cutoff = Cutoff(now),
                               !.writes = IF swept.clarifications # clarifications THEN 1 ELSE 0]]
        /\ UNCHANGED <<intent_artifacts, now, settings, gateway_log>>

\* db.py 184-190, main.py 1029.
list_clarifications_select(r) ==
    LET req == requests[r]
        rows == select_open_clarifications(clarifications, req.x_actor_id)
    IN  /\ req.kind = "list" /\ req.pc = "list_select"
        /\ requests' = [requests EXCEPT ![r] =
               [Return(req, 200, None) EXCEPT
                   !.listing = [i \in 1..Len(rows) |-> build_clarification_payload(rows[i])]]]
        /\ UNCHANGED <<intents, clarifications, intent_artifacts, now, settings, gateway_log>>


\* ------------------------------------------------------------------------
\* The requests the clients send, and the system's steps
\* ------------------------------------------------------------------------
Body(intent_type, title, due, confidence) ==
    [NoPayload EXCEPT !.schema_version = "v1", !.intent_type = intent_type,
                      !.fields = [NoFields EXCEPT !.title = title, !.due = due],
                      !.confidence = confidence]

\* A task that is ready at once; a packet without intent type and with a due
\* date that needs asking about; a packet under the confidence threshold.
BodyReady == Body("create_task", "Buy milk", Absent, NoNumber)
BodyNoType == Body(Null, "Call John", "someday", NoNumber)
BodyLowConfidence == Body("create_task", "Buy milk", Absent, 10)
Bodies == {BodyReady, BodyNoType, BodyLowConfidence}

Answers ==
    { [NoAnswer EXCEPT !.answer_text = "create_task"],
      [NoAnswer EXCEPT !.answer_text = "tomorrow"] }

\* X-Actor-Id: not sent, or the one user.
Actors == {Null, "alice"}

ClarificationIds == {clarifications[i].clarification_id : i \in 1..Len(clarifications)}
IntentIds == {intents[i].intent_id : i \in 1..Len(intents)}

\* POST /v1/intents as the clients send it: a body and the X-Actor-Id header.
\* One body is sent both without the header and by alice.
IngestInputs ==
    { <<BodyReady, Null>>, <<BodyLowConfidence, Null>>,
      <<BodyNoType, Null>>, <<BodyNoType, "alice">> }

\* The steps of POST /v1/intents after the upsert.
ingest_intent(r) ==
    \/ ingest_intent_fill_actor(r)
    \/ ingest_intent_journal_received(r)
    \/ ingest_intent_replay_load_outcome(r)
    \/ ingest_intent_replay_load_outcome_again(r)
    \/ ingest_intent_replay_expire(r)
    \/ ingest_intent_replay_select(r)
    \/ ingest_intent_replay_journal(r)
    \/ ingest_intent_replay_cache(r)
    \/ ingest_intent_normalize(r)
    \/ ingest_intent_clarify_update_intent(r)
    \/ ingest_intent_clarify_journal(r)
    \/ ingest_intent_rejected_journal(r)
    \/ ingest_intent_ready_journal(r)
    \/ ingest_intent_cache(r)
    \/ ingest_intent_execution_not_configured(r)
    \/ \E reply \in GatewayReplies : execute_plan_post(r, reply)
    \/ execute_plan_journal(r)
    \/ ingest_intent_execution_update(r)
    \/ ingest_intent_failed_journal(r)
    \/ ingest_intent_executed_journal(r)
    \/ ingest_intent_executed_cache(r)

\* The steps of the answer endpoint after its first read.
answer_clarification_endpoint(r) ==
    \/ answer_clarification_endpoint_expire(r)
    \/ answer_clarification_endpoint_expire_intent(r)
    \/ answer_clarification_endpoint_update(r)
    \/ answer_clarification_endpoint_get_intent(r)
    \/ answer_clarification_endpoint_journal(r)
    \/ answer_clarification_endpoint_normalize(r)
    \/ answer_clarification_endpoint_clarify_update_intent(r)
    \/ answer_clarification_endpoint_clarify_journal(r)
    \/ answer_clarification_endpoint_ready_journal(r)
    \/ answer_clarification_endpoint_rejected_journal(r)
    \/ answer_clarification_endpoint_replay_get_intent(r)

\* The reads that end the answer replay and GET /v1/intents/{intent_id}.
outcome(r) ==
    \/ outcome_expire(r)
    \/ outcome_select(r)
    \/ outcome_load(r)

\* Every endpoint, every input.
Next ==
    \/ \E r \in RequestIds, payload \in Bodies, x_actor_id \in Actors :
           ingest_intent_upsert(r, payload, x_actor_id)
    \/ \E r \in RequestIds : ingest_intent(r)
    \/ \E r \in RequestIds, clarification_id \in ClarificationIds, answer \in Answers,
          x_actor_id \in Actors :
           answer_clarification_endpoint_get(r, clarification_id, answer, x_actor_id)
    \/ \E r \in RequestIds : answer_clarification_endpoint(r)
    \/ \E r \in RequestIds, intent_id \in IntentIds, x_actor_id \in Actors :
           get_intent_endpoint(r, intent_id, x_actor_id)
    \/ \E r \in RequestIds : outcome(r)
    \/ \E r \in RequestIds, x_actor_id \in Actors : list_clarifications_expire(r, x_actor_id)
    \/ \E r \in RequestIds : list_clarifications_select(r)
    \/ Tick(TickHours)

Spec == Init /\ [][Next]_vars

\* POST /v1/intents alone: first posts and re-posts, one after another and
\* overlapping, under every configuration of the executor.
NextIngest ==
    \/ \E r \in RequestIds, input \in IngestInputs :
           ingest_intent_upsert(r, input[1], input[2])
    \/ \E r \in RequestIds : ingest_intent(r)

SpecIngest == Init /\ [][NextIngest]_vars

\* The clarification lifecycle: one packet that needs clarifying, its answers,
\* the listing, the reads of the intent, and the clock.
NextLifecycle ==
    \/ ingest_intent_upsert(1, BodyNoType, Null)
    \/ \E r \in RequestIds :
           \/ ingest_intent_journal_received(r)
           \/ ingest_intent_normalize(r)
           \/ ingest_intent_clarify_update_intent(r)
           \/ ingest_intent_clarify_journal(r)
           \/ ingest_intent_cache(r)
    \/ \E r \in RequestIds, clarification_id \in ClarificationIds, answer \in Answers :
           answer_clarification_endpoint_get(r, clarification_id, answer, Null)
    \/ \E r \in RequestIds : answer_clarification_endpoint(r)
    \/ \E r \in RequestIds, intent_id \in IntentIds : get_intent_endpoint(r, intent_id, Null)
    \/ \E r \in RequestIds : outcome(r)
    \/ \E r \in RequestIds : list_clarifications_expire(r, Null)
    \/ \E r \in RequestIds : list_clarifications_select(r)
    \/ Tick(TickHours)

\* The executor plays no part in it: it is switched off.
InitLifecycle == Init /\ ~settings.execute_actions

SpecLifecycle == InitLifecycle /\ [][NextLifecycle]_vars

\* The same lifecycle with the executor switched on and the gateway configured.
InitLifecycleExecuting == Init /\ settings.execute_actions /\ settings.gateway_configured

SpecLifecycleExecuting == InitLifecycleExecuting /\ [][NextLifecycle]_vars


\* Actor scoping: alice's packet that needs clarifying, then answers and reads
\* sent without the header, by alice and by somebody else, for the ids that
\* exist and for one that does not.
Callers == {Null, "alice", "bob"}
MissingIntentId == "int_missing"
MissingClarificationId == Len(clarifications) + 1

NextActors ==
    \/ ingest_intent_upsert(1, BodyNoType, "alice")
    \/ \E r \in RequestIds :
           \/ ingest_intent_journal_received(r)
           \/ ingest_intent_normalize(r)
           \/ ingest_intent_clarify_update_intent(r)
           \/ ingest_intent_clarify_journal(r)
           \/ ingest_intent_cache(r)
    \/ \E r \in RequestIds, clarification_id \in ClarificationIds \cup {MissingClarificationId},
          answer \in Answers, x_actor_id \in Callers :
           answer_clarification_endpoint_get(r, clarification_id, answer, x_actor_id)
    \/ \E r \in RequestIds : answer_clarification_endpoint(r)
    \/ \E r \in RequestIds, intent_id \in IntentIds \cup {MissingIntentId},
          x_actor_id \in Callers :
           get_intent_endpoint(r, intent_id, x_actor_id)
    \/ \E r \in RequestIds : outcome(r)
    \/ Tick(TickHours)

SpecActors == InitLifecycle /\ [][NextActors]_vars


\* ------------------------------------------------------------------------
\* The normaliser on its own (app/normalization.py)
\* ------------------------------------------------------------------------
\* The values a packet's fields take: a type that is missing, supported or
\* not; a title and a task id, present or not; a project that the resolver
\* matches clearly, ambiguously or not at all; every relative due label, an
\* ISO date, an ISO datetime and a text that is no date; a confidence that is
\* absent, under, at and over the threshold.
IntentTypes == {Null, "create_task", "update_task", "delete_task"}
Titles == {Absent, "Buy milk"}
TaskIds == {Absent, "task_1"}
Projects == {Absent, "Acme", "Alpha", "Nowhere"}
RelativeDues ==
    {"today", "tomorrow", "next week", "next week monday"}
        \cup {WeekdayNames[i] : i \in 1..7}
        \cup {"next " \o WeekdayNames[i] : i \in 1..7}
Dues == {Absent, IsoFormat(MaxDay), "someday"} \cup IsoDateTimes \cup RelativeDues
Confidences ==
    {NoNumber, min_confidence_to_write - 1, min_confidence_to_write, min_confidence_to_write + 1}
Statuses == {Absent, "done"}
Priorities == {Absent, "high"}

Packets ==
    { [NoPayload EXCEPT !.intent_type = intent_type, !.confidence = confidence,
                        !.fields = [NoFields EXCEPT !.title = title, !.task_id = task_id,
                                                    !.project = project, !.due = due,
                                                    !.status = status,
                                                    !.priority = priority]] :
        intent_type \in IntentTypes, confidence \in Confidences, title \in Titles,
        task_id \in TaskIds, project \in Projects, due \in Dues, status \in Statuses,
        priority \in Priorities }

\* Scored candidate lists of up to MaxCandidates candidates: scores under, at
\* and over the threshold, a margin and less than a margin apart, and a
\* candidate without a score.
MaxCandidates == 3
Scores ==
    {NoNumber, project_resolution_threshold - project_resolution_margin,
     project_resolution_threshold - 1, project_resolution_threshold,
     project_resolution_threshold + 1,
     project_resolution_threshold + project_resolution_margin}
CandidateNames == <<"Acme", "Alpha", "Alphabet">>
CandidateLists ==
    UNION { { [i \in 1..n |-> [id |-> CandidateNames[i], label |-> CandidateNames[i],
                               score |-> scores[i]]] : scores \in [1..n -> Scores] } :
            n \in 0..MaxCandidates }

\* The service's calendar day is any day of the week.
ClockDays == {d \in Days : d * 24 <= MaxTime}
InitNormaliser ==
    /\ intents = << >>
    /\ clarifications = << >>
    /\ intent_artifacts = << >>
    /\ now \in {d * 24 : d \in ClockDays}
    /\ settings \in SettingsChoices /\ ~settings.execute_actions
    /\ gateway_log = << >>
    /\ requests = [r \in RequestIds |-> NoRequest]

\* One call in a behaviour.
NoCallYet == \A q \in RequestIds : requests[q].pc = "idle"

\* Lines 202-433: one call of normalize_intent.
normalize_intent_call(r, packet) ==
    /\ NoCallYet
    /\ requests' = [requests EXCEPT ![r] =
           [NoRequest EXCEPT !.kind = "normalize_intent", !.pc = "done", !.payload = packet,
                             !.result = Some(normalize_intent(packet, Today(now))),
                             !.normalized = 1]]
    /\ UNCHANGED <<intents, clarifications, intent_artifacts, now, settings, gateway_log>>

\* Lines 156-178: one call of _select_high_confidence_candidate with the
\* settings' threshold and margin (lines 291-295).
_select_high_confidence_candidate_call(r, candidates) ==
    /\ NoCallYet
    /\ requests' = [requests EXCEPT ![r] =
           [NoRequest EXCEPT !.kind = "_select_high_confidence_candidate", !.pc = "done",
                             !.listing = candidates,
                             !.result = _select_high_confidence_candidate(
                                            candidates, project_resolution_threshold,
                                            project_resolution_margin)]]
    /\ UNCHANGED <<intents, clarifications, intent_artifacts, now, settings, gateway_log>>

\* Lines 114-137: one call of _resolve_relative_due.
_resolve_relative_due_call(r, value) ==
    /\ NoCallYet
    /\ requests' = [requests EXCEPT ![r] =
           [NoRequest EXCEPT !.kind = "_resolve_relative_due", !.pc = "done",
                             !.payload = [NoPayload EXCEPT !.fields = [NoFields EXCEPT !.due = value]],
                             !.result = _resolve_relative_due(value, Today(now))]]
    /\ UNCHANGED <<intents, clarifications, intent_artifacts, now, settings, gateway_log>>

NextNormaliser ==
    \/ /\ NoCallYet
       /\ \E packet \in Packets : normalize_intent_call(1, packet)
    \/ /\ NoCallYet
       /\ \E candidates \in CandidateLists :
              _select_high_confidence_candidate_call(1, candidates)
    \/ /\ NoCallYet
       /\ \E value \in Dues \ {Absent} : _resolve_relative_due_call(1, value)

SpecNormaliser == InitNormaliser /\ [][NextNormaliser]_vars


\* ------------------------------------------------------------------------
\* The idempotency key on its own (app/util/idempotency.py)
\* ------------------------------------------------------------------------
\* Body texts of one shape: an intent packet with a nested fields object, its
\* members in every order at every depth, written with and without blanks,
\* with two values of fields.a; and a body that is no object.
MaxBlanks == 1
Blanks == 0..MaxBlanks
\* values: for each key the texts its value may be.  The objects with one
\* value per key, in every order of the keys.
ObjectTexts(values, ws) ==
    LET keys == DOMAIN values
        n == Cardinality(keys)
        orders == {order \in [1..n -> keys] :
                      \A i, j \in 1..n : order[i] = order[j] => i = j}
        choices == {choice \in [keys -> UNION {values[k] : k \in keys}] :
                       \A k \in keys : choice[k] \in values[k]}
    IN  { JsonObject([i \in 1..n |-> JsonMember(order[i], choice[order[i]])], ws) :
            order \in orders, choice \in choices }
InnerTexts(ws) == ObjectTexts([x |-> {JsonAtom("1", ws)}, y |-> {JsonAtom("2", ws)}], ws)
FieldsTexts(ws) ==
    ObjectTexts([a |-> {JsonAtom("1", ws), JsonAtom("2", ws)}, b |-> InnerTexts(ws)], ws)
PacketTexts(ws) ==
    ObjectTexts([kind |-> {JsonAtom("\"intent\"", ws)},
                 natural_language |-> {JsonAtom("\"Draft plan\"", ws)},
                 fields |-> FieldsTexts(ws)], ws)
BodyTexts == UNION {PacketTexts(ws) : ws \in Blanks} \cup {JsonAtom("\"intent\"", 0)}

\* The calls followed in one behaviour.
MaxKeyCalls == 2

\* main.py lines 480-511: the body is parsed, the key is computed from the
\* parsed body, and then the identifiers are minted for the packet.
compute_idempotency_key_call(r, body) ==
    LET payload == json_loads(body)
        arrived == [NoRequest EXCEPT !.kind = "compute_idempotency_key", !.body = body]
        idempotency_key == compute_idempotency_key(payload)
    IN  /\ r <= MaxKeyCalls
        /\ NextToArrive(r)
        /\ requests' = [requests EXCEPT ![r] =
               IF payload.t # "object" THEN Return(arrived, 400, None)
               ELSE [arrived EXCEPT !.pc = "done",
                                    !.idempotency_key = idempotency_key,
                                    !.request_id = "intent:" \o idempotency_key,
                                    !.intent_id = new_intent_id(r),
                                    !.correlation_id = new_correlation_id(r),
                                    !.trace_id = new_trace_id(r)]]
        /\ UNCHANGED <<intents, clarifications, intent_artifacts, now, settings, gateway_log>>

NextIdempotencyKey ==
    \E r \in RequestIds, body \in BodyTexts : compute_idempotency_key_call(r, body)

SpecIdempotencyKey == InitLifecycle /\ [][NextIdempotencyKey]_vars


\* ------------------------------------------------------------------------
\* The project clarification: a task whose project the resolver finds
\* ambiguous, and the answers to the question about it
\* ------------------------------------------------------------------------
BodyProject ==
    [NoPayload EXCEPT !.schema_version = "v1", !.intent_type = "create_task",
                      !.fields = [NoFields EXCEPT !.title = "Ship this", !.project = "Alpha"]]
\* A choice, a typed answer, and both; the resolver would rename the one and
\* find the other ambiguous.
ProjectAnswers ==
    { [NoAnswer EXCEPT !.choice_id = "Acme"],
      [NoAnswer EXCEPT !.answer_text = "Alpha"],
      [NoAnswer EXCEPT !.choice_id = "Acme", !.answer_text = "Alpha"] }

NextProject ==
    \/ ingest_intent_upsert(1, BodyProject, Null)
    \/ \E r \in RequestIds :
           \/ ingest_intent_journal_received(r)
           \/ ingest_intent_normalize(r)
           \/ ingest_intent_clarify_update_intent(r)
           \/ ingest_intent_clarify_journal(r)
           \/ ingest_intent_cache(r)
    \/ \E r \in RequestIds, clarification_id \in ClarificationIds, answer \in ProjectAnswers :
           answer_clarification_endpoint_get(r, clarification_id, answer, Null)
    \/ \E r \in RequestIds :
           \/ answer_clarification_endpoint_expire(r)
           \/ answer_clarification_endpoint_expire_intent(r)
           \/ answer_clarification_endpoint_update(r)
           \/ answer_clarification_endpoint_get_intent(r)
           \/ answer_clarification_endpoint_journal(r)
           \/ answer_clarification_endpoint_normalize(r)
           \/ answer_clarification_endpoint_ready_journal(r)
           \/ answer_clarification_endpoint_replay_get_intent(r)
           \/ outcome_expire(r)
           \/ outcome_select(r)
    \/ Tick(TickHours)

SpecProject == InitLifecycle /\ [][NextProject]_vars


\* ------------------------------------------------------------------------
\* One packet posted and posted again, by no actor and by two different
\* actors, while the clock runs
\* ------------------------------------------------------------------------
NextReposts ==
    \/ \E r \in RequestIds, x_actor_id \in Callers :
           ingest_intent_upsert(r, BodyNoType, x_actor_id)
    \/ \E r \in RequestIds :
           \/ ingest_intent_fill_actor(r)
           \/ ingest_intent_journal_received(r)
           \/ ingest_intent_replay_load_outcome(r)
           \/ ingest_intent_replay_expire(r)
           \/ ingest_intent_replay_select(r)
           \/ ingest_intent_replay_journal(r)
           \/ ingest_intent_replay_cache(r)
           \/ ingest_intent_normalize(r)
           \/ ingest_intent_clarify_update_intent(r)
           \/ ingest_intent_clarify_journal(r)
           \/ ingest_intent_cache(r)
    \/ Tick(TickHours)

SpecReposts == InitLifecycle /\ [][NextReposts]_vars


\* ------------------------------------------------------------------------
\* A clarification round over packets that carry other fields: a task with an
\* ambiguous project and a due date, an update with a status, a priority and
\* a due value that is no date
\* ------------------------------------------------------------------------
BodyProjectDue == [BodyProject EXCEPT !.fields.due = IsoFormat(3)]
BodyUpdateDue ==
    [NoPayload EXCEPT !.schema_version = "v1", !.intent_type = "update_task",
                      !.fields = [NoFields EXCEPT !.task_id = "task_1", !.status = "done",
                                                  !.priority = "high", !.due = "someday"]]
RoundBodies == {BodyProjectDue, BodyUpdateDue}
RoundAnswers ==
    { [NoAnswer EXCEPT !.choice_id = "Acme"],
      [NoAnswer EXCEPT !.answer_text = IsoFormat(5)] }

NextRound ==
    \/ \E payload \in RoundBodies : ingest_intent_upsert(1, payload, Null)
    \/ \E r \in RequestIds :
           \/ ingest_intent_journal_received(r)
           \/ ingest_intent_normalize(r)
           \/ ingest_intent_clarify_update_intent(r)
           \/ ingest_intent_clarify_journal(r)
           \/ ingest_intent_cache(r)
    \/ \E r \in RequestIds, clarification_id \in ClarificationIds, answer \in RoundAnswers :
           answer_clarification_endpoint_get(r, clarification_id, answer, Null)
    \/ \E r \in RequestIds :
           \/ answer_clarification_endpoint(r)
           \/ outcome_expire(r)
           \/ outcome_select(r)
    \/ Tick(TickHours)

SpecRound == InitLifecycle /\ [][NextRound]_vars


\* ------------------------------------------------------------------------
\* A first POST /v1/intents run to its end: the handler's statements follow
\* one another (every database call and the gateway call, with its timeout,
\* return), while answers, reads and the clock go on beside it
\* ------------------------------------------------------------------------
\* The statements of the handler of a request that created its intent.
ingest_intent_created(r) ==
    \/ ingest_intent_journal_received(r)
    \/ ingest_intent_normalize(r)
    \/ ingest_intent_clarify_update_intent(r)
    \/ ingest_intent_clarify_journal(r)
    \/ ingest_intent_rejected_journal(r)
    \/ ingest_intent_ready_journal(r)
    \/ ingest_intent_cache(r)
    \/ ingest_intent_execution_not_configured(r)
    \/ \E reply \in GatewayReplies : execute_plan_post(r, reply)
    \/ execute_plan_journal(r)
    \/ ingest_intent_execution_update(r)
    \/ ingest_intent_failed_journal(r)
    \/ ingest_intent_executed_journal(r)
    \/ ingest_intent_executed_cache(r)

\* The packet that needs clarifying is posted with the executor off: the
\* executor plays no part in its round.
NextPost ==
    \/ \E payload \in {BodyReady, BodyLowConfidence} : ingest_intent_upsert(1, payload, Null)
    \/ /\ ~settings.execute_actions
       /\ ingest_intent_upsert(1, BodyNoType, Null)
    \/ \E r \in RequestIds : ingest_intent_created(r)
    \/ \E r \in RequestIds, clarification_id \in ClarificationIds, answer \in Answers :
           answer_clarification_endpoint_get(r, clarification_id, answer, Null)
    \/ \E r \in RequestIds : answer_clarification_endpoint(r)
    \/ \E r \in RequestIds, intent_id \in IntentIds : get_intent_endpoint(r, intent_id, Null)
    \/ \E r \in RequestIds : outcome(r)
    \/ Tick(TickHours)

SpecPost ==
    /\ Init
    /\ [][NextPost]_vars
    /\ \A r \in RequestIds : WF_vars(ingest_intent_created(r))


\* ------------------------------------------------------------------------
\* Properties of POST /v1/intents (SpecIngest)
\* ------------------------------------------------------------------------
\* The request has passed the upsert.
Upserted(r) == requests[r].kind = "ingest" /\ requests[r].idempotency_key # Null
Answered200(r) == Done(r) /\ requests[r].status_code = 200
IngestsOf(key) == {r \in RequestIds : Upserted(r) /\ requests[r].idempotency_key = key}
RowsOf(key) == {i \in 1..Len(intents) : intents[i].idempotency_key = key}
KeysSeen == {requests[r].idempotency_key : r \in {q \in RequestIds : Upserted(q)}}

\* C1: the intents table holds at most one row per idempotency_key, and every
\* POST /v1/intents whose body has that key works on, and is answered with, the
\* intent_id of the row inserted first, whatever intent_id the request minted.
C1_OneIntentPerIdempotencyKey ==
    \A key \in KeysSeen :
        /\ Cardinality(RowsOf(key)) = 1
        /\ \A r \in IngestsOf(key), i \in RowsOf(key) :
              /\ requests[r].intent_id = intents[i].intent_id
              /\ Answered200(r) =>
                    /\ requests[r].response[1].intent_id = intents[i].intent_id
                    /\ requests[r].response[1].receipt_id = intents[i].intent_id

\* C1's case: a re-post that minted another intent_id has been answered with
\* the intent_id of the first request's row.
C1_Witness ==
    \E r1, r2 \in RequestIds :
        /\ r1 # r2 /\ Upserted(r1) /\ Upserted(r2)
        /\ requests[r1].idempotency_key = requests[r2].idempotency_key
        /\ requests[r1].created /\ Answered200(r1) /\ Answered200(r2)
        /\ requests[r2].payload.intent_id = Null
        /\ new_intent_id(r2) # requests[r2].response[1].intent_id
        /\ requests[r2].response[1].intent_id = requests[r1].response[1].intent_id

ReplayPcs ==
    {"upsert_fill_actor", "journal_received", "replay_load_outcome",
     "replay_load_outcome_again", "replay_expire", "replay_select", "replay_journal",
     "replay_cache", "done"}

\* C2: of the POST /v1/intents requests with one idempotency key, overlapping
\* or not, exactly one is told created = true; every other one is on the
\* replay branch and never normalises; so normalize_intent runs at most once
\* for the key, at most one clarification is created for it by the ingest
\* path, and the plan is dispatched at most once.
C2_ExactlyOneCreator ==
    \A key \in KeysSeen :
        LET creators == {r \in IngestsOf(key) : requests[r].created}
        IN  /\ Cardinality(creators) = 1
            /\ \A r \in IngestsOf(key) \ creators :
                  /\ requests[r].normalized = 0
                  /\ requests[r].pc \in ReplayPcs
            /\ \A r \in creators : requests[r].normalized <= 1
            /\ \A i \in RowsOf(key) :
                  Cardinality({j \in 1..Len(clarifications) :
                                  clarifications[j].intent_id = intents[i].intent_id}) <= 1
            /\ Cardinality({j \in 1..Len(gateway_log) :
                               gateway_log[j].intent_idempotency_key = key}) <= 1

\* C2's case: two requests with one key overlap; the one that created the
\* intent has normalised and is still running while the other is on the replay
\* branch.
C2_Witness ==
    \E r1, r2 \in RequestIds :
        /\ r1 # r2 /\ Upserted(r1) /\ Upserted(r2)
        /\ requests[r1].idempotency_key = requests[r2].idempotency_key
        /\ requests[r1].created /\ ~requests[r2].created
        /\ InFlight(r1) /\ requests[r1].normalized = 1
        /\ requests[r2].pc = "replay_journal"

\* The fields of an envelope that a replay is to repeat.
EnvelopeFields(e) ==
    [status |-> e.status, intent_id |-> e.intent_id, receipt_id |-> e.receipt_id,
     trace_id |-> e.trace_id, idempotency_key |-> e.idempotency_key, plan |-> e.plan,
     clarification |-> e.clarification, error_code |-> e.error_code, error |-> e.error]

\* C3: once the POST /v1/intents that created an intent has been answered,
\* every POST of the same body that arrives later is answered with an
\* envelope equal to the first one in status, intent_id, receipt_id, trace_id,
\* idempotency_key, plan, clarification and error fields.
C3_ReplayEqualsFirstEnvelope ==
    \A r1, r2 \in RequestIds :
        ( /\ Upserted(r1) /\ Upserted(r2)
          /\ requests[r1].payload = requests[r2].payload
          /\ requests[r1].created
          /\ Answered200(r1) /\ Answered200(r2)
          /\ r1 \in requests[r2].after )
        => EnvelopeFields(requests[r2].response[1]) = EnvelopeFields(requests[r1].response[1])

\* C4: the gateway receives at most one request per plan action and
\* idempotency key; the requests it receives come from the request that
\* created the intent, never from a replay, overlapping or later.
C4_GatewayCalledOncePerKey ==
    /\ \A i, j \in 1..Len(gateway_log) :
          ( /\ gateway_log[i].intent_idempotency_key = gateway_log[j].intent_idempotency_key
            /\ gateway_log[i].request.idempotency_key = gateway_log[j].request.idempotency_key )
          => i = j
    /\ \A j \in 1..Len(gateway_log) : requests[gateway_log[j].from].created
    /\ \A r \in RequestIds :
          Upserted(r) /\ ~requests[r].created
          => \A j \in 1..Len(gateway_log) : gateway_log[j].from # r

\* C4's case: the plan was dispatched by the creating request, and a re-post
\* of the same body that overlapped it has been answered.
C4_Witness ==
    \E r1, r2 \in RequestIds :
        /\ r1 # r2 /\ Upserted(r1) /\ Upserted(r2)
        /\ requests[r1].idempotency_key = requests[r2].idempotency_key
        /\ requests[r1].created /\ ~requests[r2].created
        /\ Answered200(r1) /\ Answered200(r2)
        /\ r1 \notin requests[r2].after
        /\ \E j \in 1..Len(gateway_log) : gateway_log[j].from = r1

HasReceived(intent_id) ==
    \E i \in 1..Len(intent_artifacts) :
        /\ intent_artifacts[i].intent_id = intent_id
        /\ intent_artifacts[i].kind = "intent"
        /\ intent_artifacts[i].status = "received"

HasReceivedRow(intent_id, idempotency_key) ==
    \E i \in 1..Len(intents) :
        /\ intents[i].intent_id = intent_id
        /\ intents[i].idempotency_key = idempotency_key

\* C5: when a POST /v1/intents is about to normalise, and ever after it has
\* normalised (wherever it stops), the intent row is committed and a `received`
\* artifact of the intent is in the journal; no intent has a status other than
\* received, a canonical_draft or a final_canonical without a `received`
\* artifact.
C5_PersistFirst ==
    /\ \A r \in RequestIds :
          requests[r].kind = "ingest" /\ (requests[r].pc = "normalize" \/ requests[r].normalized > 0)
          => /\ HasReceivedRow(requests[r].intent_id, requests[r].idempotency_key)
             /\ HasReceived(requests[r].intent_id)
    /\ \A i \in 1..Len(intents) :
          ( \/ intents[i].status # "received"
            \/ intents[i].canonical_draft # None
            \/ intents[i].final_canonical # None )
          => HasReceived(intents[i].intent_id)

\* C5's case: a request has normalised and changed the intent's status, and
\* has not returned.
C5_Witness ==
    \E r \in RequestIds, i \in 1..Len(intents) :
        /\ requests[r].kind = "ingest" /\ requests[r].normalized = 1 /\ InFlight(r)
        /\ intents[i].intent_id = requests[r].intent_id
        /\ intents[i].status # "received"
        /\ HasReceived(requests[r].intent_id)

\* C10: the journal only grows: every step leaves the rows it already holds
\* as they are, in place; and every row's artifact_hash is the SHA-256 of the
\* canonical JSON of the row's artifact body.
C10_JournalAppendOnlyAndHashed ==
    /\ [](\A i \in 1..Len(intent_artifacts) :
             intent_artifacts[i].artifact_hash =
                 sha256_hex(canonical_json(intent_artifacts[i].artifact)))
    /\ [][ /\ Len(intent_artifacts') >= Len(intent_artifacts)
           /\ \A i \in 1..Len(intent_artifacts) : intent_artifacts'[i] = intent_artifacts[i]
         ]_vars

\* C10's case: the journal holds the artifacts of a finished ingest, a
\* `received` one and the outcome written after it, and an executor's action
\* artifact.
C10_Witness ==
    /\ \E i, j \in 1..Len(intent_artifacts) :
          /\ i < j
          /\ intent_artifacts[i].status = "received"
          /\ intent_artifacts[j].status = "executed"
          /\ intent_artifacts[j].kind = "intent"
          /\ intent_artifacts[i].intent_id = intent_artifacts[j].intent_id
    /\ \E i \in 1..Len(intent_artifacts) : intent_artifacts[i].kind = "action"


\* ------------------------------------------------------------------------
\* Properties of the clarification lifecycle (SpecLifecycle)
\* ------------------------------------------------------------------------
OpenClarificationsOf(intent_id) ==
    {i \in 1..Len(clarifications) :
        clarifications[i].intent_id = intent_id /\ clarifications[i].status = "open"}

\* C6: in every reachable state each intent has at most one clarification
\* whose status is open.
C6_SingleOpenClarification ==
    \A i \in 1..Len(intents) :
        Cardinality(OpenClarificationsOf(intents[i].intent_id)) <= 1

\* C6's case: an intent whose first clarification was answered and whose
\* second one is open.
C6_Witness ==
    \E i, j \in 1..Len(clarifications) :
        /\ clarifications[i].intent_id = clarifications[j].intent_id
        /\ clarifications[i].status = "answered"
        /\ clarifications[j].status = "open"

\* C7: a step changes a clarification's status only from open to answered or
\* from open to expired; a row that is answered or expired keeps its status and
\* its stored answer in every later step, and no row is ever removed.
C7_ClarificationStatusMonotonic ==
    [][ /\ Len(clarifications') >= Len(clarifications)
        /\ \A i \in 1..Len(clarifications) :
              /\ clarifications'[i].clarification_id = clarifications[i].clarification_id
              /\ clarifications'[i].status # clarifications[i].status =>
                    /\ clarifications[i].status = "open"
                    /\ clarifications'[i].status \in {"answered", "expired"}
              /\ clarifications[i].status # "open" =>
                    /\ clarifications'[i].status = clarifications[i].status
                    /\ clarifications'[i].answer = clarifications[i].answer
      ]_vars

\* C7's case: one clarification was answered and keeps its answer, another one
\* expired, and an answer sent to the expired one was turned away with 409.
C7_Witness ==
    \E i, j \in 1..Len(clarifications) :
        /\ clarifications[i].status = "answered"
        /\ clarifications[i].answer # None
        /\ clarifications[j].status = "expired"
        /\ \E r \in RequestIds :
              /\ Done(r)
              /\ requests[r].kind = "answer"
              /\ requests[r].clarification_id = clarifications[j].clarification_id
              /\ requests[r].status_code = 409

\* The answer requests that have run the guarded update on a clarification,
\* and those of them whose update matched the row.
Contenders(clarification_id) ==
    {r \in RequestIds : /\ requests[r].kind = "answer"
                        /\ requests[r].clarification_id = clarification_id
                        /\ requests[r].answered # None}
Winners(clarification_id) ==
    {r \in Contenders(clarification_id) : requests[r].answered = Some(TRUE)}
AnsweredArtifactsOf(clarification_id) ==
    {i \in 1..Len(intent_artifacts) :
        /\ intent_artifacts[i].status = "clarification_answered"
        /\ intent_artifacts[i].artifact.packet.clarification_id = clarification_id}
StatusOfClarification(clarification_id) ==
    LET row == get_clarification(clarifications, clarification_id)
    IN  IF row = None THEN Null ELSE row[1].status

\* C8, as stated: of the answer requests that have run the guarded update on
\* one clarification, exactly one performed the open -> answered update.
C8_ExactlyOneWinner ==
    \A clarification_id \in ClarificationIds :
        Contenders(clarification_id) # {} =>
            Cardinality(Winners(clarification_id)) = 1

\* C8, amended: at most one answer request performs the open -> answered update
\* of a clarification, and none does only when the clarification expired
\* between the requests' read and their update; the row is answered exactly
\* when a request won; only a winner journals clarification_answered; a request
\* whose guarded update matched no row ends there with 409, having written no
\* intent row, no clarification row and no artifact.
C8_AtMostOneWinner ==
    /\ [](\A clarification_id \in ClarificationIds :
             /\ Cardinality(Winners(clarification_id)) <= 1
             /\ StatusOfClarification(clarification_id) = "answered"
                    <=> Winners(clarification_id) # {}
             /\ (Contenders(clarification_id) # {} /\ Winners(clarification_id) = {})
                    => StatusOfClarification(clarification_id) = "expired"
             /\ Cardinality(AnsweredArtifactsOf(clarification_id))
                    <= Cardinality(Winners(clarification_id)))
    /\ [][ \A r \in RequestIds :
             (requests[r].pc = "answer_update" /\ requests'[r].pc = "done") =>
                 /\ requests'[r].answered = Some(FALSE)
                 /\ requests'[r].status_code = 409
                 /\ requests'[r].writes = 0
                 /\ UNCHANGED <<intents, clarifications, intent_artifacts>>
         ]_vars

\* C8's case: two answers to one clarification ran the guarded update; one
\* won and journalled clarification_answered, the other lost and got 409.
C8_Witness ==
    \E clarification_id \in ClarificationIds, w, l \in RequestIds :
        /\ w \in Winners(clarification_id)
        /\ l \in Contenders(clarification_id) \ Winners(clarification_id)
        /\ Done(l) /\ requests[l].status_code = 409
        /\ AnsweredArtifactsOf(clarification_id) # {}

\* C9, as stated: every status an intent row was given has an artifact of
\* that intent recording it; looked at when no request is half way through
\* its writes.
C9_EveryStatusChangeJournalled ==
    (\A r \in RequestIds : ~InFlight(r)) =>
        \A i \in 1..Len(intents) :
            \E j \in 1..Len(intent_artifacts) :
                /\ intent_artifacts[j].intent_id = intents[i].intent_id
                /\ intent_artifacts[j].kind = "intent"
                /\ intent_artifacts[j].status = intents[i].status


\* ------------------------------------------------------------------------
\* Properties of the outcome envelopes (SpecLifecycle, SpecLifecycleExecuting)
\* ------------------------------------------------------------------------
\* Request r returns in this step, with an outcome envelope.
EmitsOutcome(r) ==
    /\ requests[r].pc # "done"
    /\ requests'[r].pc = "done"
    /\ requests'[r].kind \in {"ingest", "answer"}
    /\ requests'[r].status_code = 200

\* C11, as stated: when a POST /v1/intents or a clarification answer returns
\* an outcome envelope for an intent, the envelope cached on the intent's row
\* is the one it returns.
C11_CacheHoldsLastEmitted ==
    [][ \A r \in RequestIds :
          EmitsOutcome(r) =>
              \E i \in 1..Len(intents') :
                  /\ intents'[i].intent_id = requests'[r].response[1].intent_id
                  /\ intents'[i].response_envelope_json = requests'[r].response
      ]_vars

\* C12, as stated: with execute_actions enabled, an accepted answer whose
\* re-normalised result is Ready goes on to the executor, so no request is
\* answered with a `ready` envelope and no intent rests in status ready.
C12_AnswerReadyIsExecuted ==
    settings.execute_actions =>
        /\ \A r \in RequestIds :
              (Done(r) /\ requests[r].kind \in {"ingest", "answer"}
                       /\ requests[r].status_code = 200)
                  => requests[r].response[1].status # "ready"
        /\ (\A r \in RequestIds : ~InFlight(r)) =>
               \A i \in 1..Len(intents) : intents[i].status # "ready"

\* Request w won the guarded update of its clarification and has returned its
\* envelope; request p sent the same answer to the same clarification after w
\* had returned.
AcceptedAnswer(w) ==
    /\ requests[w].kind = "answer"
    /\ requests[w].answered = Some(TRUE)
    /\ Answered200(w)
SameAnswerAgain(p, w) ==
    /\ requests[p].kind = "answer"
    /\ requests[p].clarification_id = requests[w].clarification_id
    /\ requests[p].answer = requests[w].answer
    /\ w \in requests[p].after
    /\ Done(p)
AnswerReplayPcs == {"answer_replay_get_intent", "outcome_expire", "outcome_select", "outcome_load"}

NothingWrittenSince(w) ==
    \A q \in RequestIds \ {w} : requests[q].writes = 0 \/ q \in requests[w].after

\* The step is at most an expiry sweep: open clarifications older than the
\* cutoff go to expired, intents in needs_clarification go to expired, nothing
\* else changes and the journal is left alone.
AtMostAnExpirySweep ==
    /\ intent_artifacts' = intent_artifacts
    /\ Len(clarifications') = Len(clarifications)
    /\ Len(intents') = Len(intents)
    /\ \A i \in 1..Len(clarifications) :
          \/ clarifications'[i] = clarifications[i]
          \/ /\ clarifications[i].status = "open"
             /\ clarifications[i].created_at < Cutoff(now)
             /\ clarifications'[i] = [clarifications[i] EXCEPT !.status = "expired"]
    /\ \A i \in 1..Len(intents) :
          \/ intents'[i] = intents[i]
          \/ /\ intents[i].status = "needs_clarification"
             /\ intents'[i] = [intents[i] EXCEPT !.status = "expired"]

ArrivesAtClosedClarification(r) ==
    /\ requests[r].pc = "idle"
    /\ requests'[r].kind = "answer"
    /\ Truthy(requests'[r].answer.choice_id) \/ Truthy(requests'[r].answer.answer_text)
    /\ LET row == get_clarification(clarifications, requests'[r].clarification_id)
       IN  /\ row # None
           /\ ~(/\ Truthy(requests'[r].x_actor_id) /\ Truthy(row[1].actor_id)
                /\ row[1].actor_id # requests'[r].x_actor_id)
           /\ row[1].status # "open"
           /\ ~(row[1].status = "answered" /\ row[1].answer = Some(requests'[r].answer))

\* C14: an answer to a clarification that is answered with another payload, or
\* expired, is turned away with 409 at once; no intent row, no clarification
\* row and no artifact changes, whatever the status of the owning intent.
C14_ClosedClarificationRefused ==
    [][ \A r \in RequestIds :
          ArrivesAtClosedClarification(r) =>
              /\ requests'[r].pc = "done"
              /\ requests'[r].status_code = 409
              /\ requests'[r].writes = 0
              /\ UNCHANGED <<intents, clarifications, intent_artifacts>>
      ]_vars

\* C14's case: a clarification is answered, and a request that sent it another
\* payload has got 409 without writing anything.
C14_Witness ==
    \E r \in RequestIds, i \in 1..Len(clarifications) :
        /\ requests[r].kind = "answer" /\ Done(r)
        /\ requests[r].clarification_id = clarifications[i].clarification_id
        /\ requests[r].answered = None
        /\ requests[r].writes = 0
        /\ requests[r].status_code = 409
        /\ clarifications[i].status = "answered"
        /\ clarifications[i].answer # Some(requests[r].answer)

\* An accepted answer's re-normalisation comes to needs_clarification in this
\* step of request r.
AsksAgain(r) ==
    /\ requests[r].kind = "answer"
    /\ requests[r].pc = "answer_normalize"
    /\ requests'[r].pc = "answer_clarify_update_intent"

\* C15: when the re-normalisation after an accepted answer asks again, one row
\* is added to clarifications, open, for the same intent, under an id no row
\* had; every row there was, the answered one with its answer, stays as it is;
\* and no step at all puts an answered or expired row back to open.
C15_FreshClarification ==
    [][ /\ \A r \in RequestIds :
              AsksAgain(r) =>
                  /\ Len(clarifications') = Len(clarifications) + 1
                  /\ \A i \in 1..Len(clarifications) :
                        /\ clarifications'[i] = clarifications[i]
                        /\ clarifications[i].clarification_id
                               # Last(clarifications')[1].clarification_id
                  /\ Last(clarifications')[1].status = "open"
                  /\ Last(clarifications')[1].answer = None
                  /\ Last(clarifications')[1].intent_id = requests[r].intent_id
                  /\ \E i \in 1..Len(clarifications) :
                        /\ clarifications'[i].clarification_id = requests[r].clarification_id
                        /\ clarifications'[i].status = "answered"
                        /\ clarifications'[i].answer = Some(requests[r].answer)
        /\ \A i \in 1..Len(clarifications) :
              (i <= Len(clarifications') /\ clarifications[i].status # "open")
                  => clarifications'[i].status # "open"
      ]_vars

\* C15's case: an accepted answer led to a second question: the row it
\* answered is answered and holds the answer, and a newer row of the same
\* intent, with another id, is open.
C15_Witness ==
    \E w \in RequestIds, i, j \in 1..Len(clarifications) :
        /\ requests[w].kind = "answer" /\ requests[w].answered = Some(TRUE)
        /\ Answered200(w)
        /\ requests[w].response[1].status = "needs_clarification"
        /\ clarifications[i].clarification_id = requests[w].clarification_id
        /\ clarifications[i].status = "answered"
        /\ clarifications[i].answer = Some(requests[w].answer)
        /\ i < j
        /\ clarifications[j].intent_id = clarifications[i].intent_id
        /\ clarifications[j].clarification_id # clarifications[i].clarification_id
        /\ clarifications[j].status = "open"

\* C16, as stated: an answer to an open clarification older than
\* clarification_expiry_hours returns 409 leaving that clarification expired
\* with no stored answer and its intent expired, and has not re-normalised.
C16_OverdueAnswerExpires ==
    [][ \A r \in RequestIds :
          ( /\ requests[r].kind = "answer"
            /\ requests[r].pc \in {"answer_expire", "answer_expire_intent"}
            /\ requests'[r].pc = "done" ) =>
              /\ requests'[r].status_code = 409
              /\ requests'[r].normalized = 0
              /\ \E i \in 1..Len(clarifications') :
                    /\ clarifications'[i].clarification_id = requests[r].clarification_id
                    /\ clarifications'[i].status = "expired"
                    /\ clarifications'[i].answer = None
              /\ \E i \in 1..Len(intents') :
                    /\ intents'[i].intent_id = requests[r].target_intent_id
                    /\ intents'[i].status = "expired"
      ]_vars

\* Clarification row `row` is within the scope of a caller who sent X-Actor-Id
\* `actor` (every row, when the header was not sent).
InActorScope(row, actor) == Truthy(actor) => row.actor_id = actor

\* C17: GET /v1/clarifications first sets, in one step, every open
\* clarification of the caller's scope that is older than the cutoff to expired
\* and every owning intent that is in needs_clarification to expired, leaving
\* every other row alone; the list it then returns holds only clarifications
\* that are open and not older than that cutoff.
C17_ListSweepsBeforeListing ==
    [][ \A r \in RequestIds :
          /\ (requests[r].pc = "idle" /\ requests'[r].kind = "list") =>
                LET actor == requests'[r].x_actor_id
                    overdue == {i \in 1..Len(clarifications) :
                                   /\ clarifications[i].status = "open"
                                   /\ clarifications[i].created_at < Cutoff(now)
                                   /\ InActorScope(clarifications[i], actor)}
                IN  /\ Len(clarifications') = Len(clarifications)
                    /\ Len(intents') = Len(intents)
                    /\ \A i \in 1..Len(clarifications) :
                          clarifications'[i] =
                              IF i \in overdue
                              THEN [clarifications[i] EXCEPT !.status = "expired"]
                              ELSE clarifications[i]
                    /\ \A j \in 1..Len(intents) :
                          intents'[j] =
                              IF /\ intents[j].status = "needs_clarification"
                                 /\ \E i \in overdue :
                                       clarifications[i].intent_id = intents[j].intent_id
                              THEN [intents[j] EXCEPT !.status = "expired"]
                              ELSE intents[j]
          /\ (requests[r].pc = "list_select" /\ requests'[r].pc = "done") =>
                /\ requests'[r].status_code = 200
                /\ \A k \in 1..Len(requests'[r].listing) :
                      \E i \in 1..Len(clarifications) :
                          /\ clarifications[i].clarification_id
                                 = requests'[r].listing[k].clarification_id
                          /\ clarifications[i].status = "open"
                          /\ requests'[r].listing[k].status = "open"
                          /\ clarifications[i].created_at >= requests[r].cutoff
                          /\ InActorScope(clarifications[i], requests[r].x_actor_id)
      ]_vars

\* C17's case: a clarification was open for longer than the expiry time; a
\* GET /v1/clarifications swept it and its intent to expired and returned an
\* empty list.
C17_Witness ==
    \E r \in RequestIds, i \in 1..Len(clarifications), j \in 1..Len(intents) :
        /\ requests[r].kind = "list" /\ Done(r)
        /\ requests[r].writes = 1
        /\ requests[r].listing = << >>
        /\ clarifications[i].status = "expired"
        /\ clarifications[i].created_at < requests[r].cutoff
        /\ intents[j].intent_id = clarifications[i].intent_id
        /\ intents[j].status = "expired"


\* ------------------------------------------------------------------------
\* Properties of the execution of plans (SpecIngest)
\* ------------------------------------------------------------------------
\* Request r created its intent and has returned its envelope.
CreatorAnswered(r) == Upserted(r) /\ requests[r].created /\ Answered200(r)
StatusOfIntent(intent_id) ==
    LET row == get_intent(intents, intent_id)
    IN  IF row = None THEN Null ELSE row[1].status
\* The results of the actions that failed, in the order of the plan.
Failures(envelope) ==
    SelectSeq(envelope.details.execution_results, LAMBDA result : ~result.success)
\* The envelope went through the executor.
Executed(envelope) == envelope.details.execution_results # << >>

\* C18, as stated: with the executor on and the gateway configured, the ingest
\* of a Ready packet ends executed only if every action succeeded, and failed
\* if one failed; the failed envelope's error.code is the first failing
\* action's parsed error code and its details are that action's status_code,
\* endpoint and request_id.
C18_FailureSurfacesGatewayError ==
    (settings.execute_actions /\ settings.gateway_configured) =>
        \A r \in RequestIds :
            CreatorAnswered(r) =>
                LET envelope == requests[r].response[1]
                    failures == Failures(envelope)
                IN  /\ envelope.status # "ready"
                    /\ envelope.status = "executed" =>
                          /\ Executed(envelope) /\ failures = << >>
                          /\ StatusOfIntent(envelope.intent_id) = "executed"
                    /\ (Executed(envelope) /\ failures # << >>) =>
                          envelope.status = "failed"
                    /\ envelope.status = "failed" =>
                          /\ failures # << >>
                          /\ StatusOfIntent(envelope.intent_id) = "failed"
                          /\ envelope.error.code = failures[1].error_code
                          /\ envelope.error.status_code = failures[1].status_code
                          /\ envelope.error.endpoint = failures[1].endpoint
                          /\ envelope.error.request_id = failures[1].request_id

\* C18, amended: as above, but error.code is the first failing action's parsed
\* error code when the gateway's reply held one and EXECUTION_FAILED when it
\* did not, and details.status_code is that action's status code when the
\* gateway replied and 502 when the call raised.
C18_FailureSurfacesGatewayErrorOrDefault ==
    (settings.execute_actions /\ settings.gateway_configured) =>
        \A r \in RequestIds :
            CreatorAnswered(r) =>
                LET envelope == requests[r].response[1]
                    failures == Failures(envelope)
                IN  /\ envelope.status # "ready"
                    /\ envelope.status = "executed" =>
                          /\ Executed(envelope) /\ failures = << >>
                          /\ StatusOfIntent(envelope.intent_id) = "executed"
                    /\ (Executed(envelope) /\ failures # << >>) =>
                          envelope.status = "failed"
                    /\ envelope.status = "failed" =>
                          /\ failures # << >>
                          /\ StatusOfIntent(envelope.intent_id) = "failed"
                          /\ envelope.error_code = "EXECUTION_FAILED"
                          /\ envelope.error.code =
                                 IF failures[1].error_code # Null
                                 THEN failures[1].error_code ELSE "EXECUTION_FAILED"
                          /\ envelope.error.status_code =
                                 IF failures[1].status_code # 0
                                 THEN failures[1].status_code ELSE 502
                          /\ envelope.error.endpoint = failures[1].endpoint
                          /\ envelope.error.request_id = failures[1].request_id

\* C18's case: the gateway answered the plan's action with 500 and an error
\* code; the ingest returned a failed envelope carrying them and left the
\* intent failed.
C18_Witness ==
    /\ settings.execute_actions /\ settings.gateway_configured
    /\ \E r \in RequestIds :
          /\ CreatorAnswered(r)
          /\ requests[r].response[1].status = "failed"
          /\ requests[r].response[1].error.code = "tasks_create_failed"
          /\ requests[r].response[1].error.status_code = 500
          /\ StatusOfIntent(requests[r].intent_id) = "failed"

\* Request r created its intent, its packet normalises to Ready, and it has
\* returned its envelope.
ReadyCreatorAnswered(r) ==
    /\ CreatorAnswered(r)
    /\ normalize_intent(requests[r].payload, Today(now)).status = "ready"

FailureJournalled(intent_id) ==
    \E i \in 1..Len(intent_artifacts) :
        /\ intent_artifacts[i].intent_id = intent_id
        /\ intent_artifacts[i].kind = "intent"
        /\ intent_artifacts[i].status \in {"rejected", "failed"}
FailureEnvelope(envelope) == envelope.status \in {"rejected", "failed"}
\* Request r is a POST /v1/intents or an answer that has returned a rejected or
\* failed envelope.
ReturnedFailure(r) ==
    /\ requests[r].kind \in {"ingest", "answer"}
    /\ Answered200(r)
    /\ requests[r].response # None
    /\ FailureEnvelope(requests[r].response[1])

\* C20: whenever an ingest or an answer has returned a rejected or failed
\* envelope, and whenever such an envelope is in an intent's cache, the journal
\* already holds an intent artifact of that intent with status rejected or
\* failed.
C20_FailureJournalledBeforeReturn ==
    /\ \A r \in RequestIds :
          ReturnedFailure(r) => FailureJournalled(requests[r].response[1].intent_id)
    /\ \A i \in 1..Len(intents) :
          (/\ intents[i].response_envelope_json # None
           /\ FailureEnvelope(intents[i].response_envelope_json[1]))
              => FailureJournalled(intents[i].intent_id)

\* ------------------------------------------------------------------------
\* Properties of actor scoping (SpecActors)
\* ------------------------------------------------------------------------
Arrives(r) == requests[r].pc = "idle" /\ requests'[r].pc # "idle"
ActorMismatch(x_actor_id, stored) ==
    Truthy(x_actor_id) /\ Truthy(stored) /\ stored # x_actor_id
\* The request arrives at a row whose actor is not the one of its header.
ArrivesAsStranger(r) ==
    /\ Arrives(r)
    /\ \/ /\ requests'[r].kind = "answer"
          /\ \E i \in 1..Len(clarifications) :
                /\ clarifications[i].clarification_id = requests'[r].clarification_id
                /\ ActorMismatch(requests'[r].x_actor_id, clarifications[i].actor_id)
       \/ /\ requests'[r].kind = "get"
          /\ \E i \in 1..Len(intents) :
                /\ intents[i].intent_id = requests'[r].target_intent_id
                /\ ActorMismatch(requests'[r].x_actor_id, intents[i].actor_id)
\* The request arrives with an id that no row has.
ArrivesAtNothing(r) ==
    /\ Arrives(r)
    /\ \/ /\ requests'[r].kind = "answer"
          /\ requests'[r].clarification_id \notin ClarificationIds
          /\ Truthy(requests'[r].answer.choice_id) \/ Truthy(requests'[r].answer.answer_text)
       \/ /\ requests'[r].kind = "get"
          /\ requests'[r].target_intent_id \notin IntentIds
NotFound(req) == req.pc = "done" /\ req.status_code = 404 /\ req.response = None

\* C21: an answer or a GET /v1/intents/{id} whose X-Actor-Id differs from the
\* non-null actor_id of the clarification, or of the intent, returns 404 in
\* the step in which it arrives, as does one for an id that no row has, and
\* that step changes no intent row and no clarification row.
C21_StrangerGetsNotFound ==
    [][\A r \in RequestIds :
          (ArrivesAsStranger(r) \/ ArrivesAtNothing(r)) =>
              /\ NotFound(requests'[r])
              /\ requests'[r].writes = 0
              /\ UNCHANGED <<intents, clarifications>>]_vars

\* C21's case: bob has answered alice's clarification and has read alice's
\* intent, and both requests were answered 404.
C21_Witness ==
    /\ \E r \in RequestIds, i \in 1..Len(clarifications) :
          /\ requests[r].kind = "answer" /\ NotFound(requests[r])
          /\ clarifications[i].clarification_id = requests[r].clarification_id
          /\ ActorMismatch(requests[r].x_actor_id, clarifications[i].actor_id)
    /\ \E r \in RequestIds, i \in 1..Len(intents) :
          /\ requests[r].kind = "get" /\ NotFound(requests[r])
          /\ intents[i].intent_id = requests[r].target_intent_id
          /\ ActorMismatch(requests[r].x_actor_id, intents[i].actor_id)

\* ------------------------------------------------------------------------
\* Properties of the normaliser (SpecNormaliser)
\* ------------------------------------------------------------------------
\* Request r is a finished call of the function.
Called(r, function) == requests[r].kind = function /\ Done(r)
Normalized(r) == Called(r, "normalize_intent")
PacketOf(r) == requests[r].payload
ResultOf(r) == requests[r].result[1]
RejectedWith(result, code) == result.status = "rejected" /\ result.error_code = code
ConfidencePresent(packet) == packet.confidence # NoNumber

\* C23: normalize_intent rejects with POLICY_LOW_CONFIDENCE exactly when the
\* packet has a confidence and it is strictly below min_confidence_to_write; a
\* confidence equal to the threshold, and an absent one, pass the gate.
C23_LowConfidenceGate ==
    \A r \in RequestIds :
        Normalized(r) =>
            (RejectedWith(ResultOf(r), "POLICY_LOW_CONFIDENCE")
                <=> (/\ ConfidencePresent(PacketOf(r))
                     /\ PacketOf(r).confidence < min_confidence_to_write))

\* C23's case: a packet whose confidence is exactly the threshold has been
\* normalised and is ready.
C23_Witness ==
    \E r \in RequestIds :
        /\ Normalized(r)
        /\ PacketOf(r).confidence = min_confidence_to_write
        /\ ResultOf(r).status = "ready"

\* The places of the candidates with the highest score, and the highest score
\* among the others once one of them is set aside.
Highest(candidates) ==
    {i \in 1..Len(candidates) :
        \A j \in 1..Len(candidates) : ScoreOf(candidates[j]) <= ScoreOf(candidates[i])}
LeadsBy(candidates, i, margin) ==
    \A j \in (1..Len(candidates)) \ {i} :
        ScoreOf(candidates[i]) - ScoreOf(candidates[j]) >= margin
Selectable(candidates) ==
    \E i \in Highest(candidates) :
        /\ ScoreOf(candidates[i]) >= project_resolution_threshold
        /\ LeadsBy(candidates, i, project_resolution_margin)
\* The packet reaches project resolution with a project to resolve.
ReachesProject(packet) ==
    /\ ~(ConfidencePresent(packet) /\ packet.confidence < min_confidence_to_write)
    /\ packet.intent_type = "create_task"
    /\ Truthy(packet.fields.title)
    /\ IsStr(packet.fields.project)
    /\ ~packet.fields.project_resolved
AsksAbout(result, field) ==
    /\ result.status = "needs_clarification"
    /\ result.canonical_draft[1].pending.field = field

Resolved(r) == Called(r, "_resolve_relative_due")
DueOf(r) == requests[r].payload.fields.due
\* The weekday a due value names: 0 for monday .. 6 for sunday.
NamesWeekday(value) == IsWeekdayName(value) \/ IsNextWeekday(value)
WeekdayNamed(value) ==
    IF IsWeekdayName(value) THEN WeekdayIndex(value) ELSE WeekdayIndex(NextWeekdayName(value))
\* The first day strictly after today that is the weekday wd.
FirstAfter(today, wd) ==
    CHOOSE day \in (today + 1)..(today + 7) : weekday(day) = wd

\* C25: a due value that is a weekday name, or next and a weekday name,
\* resolves to the first date strictly after today that is that weekday:
\* between 1 and 7 days ahead, and 7 days ahead when today is that weekday.
\* normalize_intent puts that date in the task it makes ready.
C25_WeekdayIsStrictlyNext ==
    /\ \A r \in RequestIds :
          (Resolved(r) /\ NamesWeekday(DueOf(r))) =>
              LET today == Today(now)
                  wd == WeekdayNamed(DueOf(r))
              IN  /\ requests[r].result # None
                  /\ requests[r].result[1].value = IsoFormat(FirstAfter(today, wd))
                  /\ \E ahead \in 1..7 :
                        requests[r].result[1].value = IsoFormat(today + ahead)
                  /\ weekday(today) = wd =>
                        requests[r].result[1].value = IsoFormat(today + 7)
    /\ \A r \in RequestIds :
          (/\ Normalized(r) /\ ResultOf(r).status = "ready"
           /\ PacketOf(r).intent_type = "create_task"
           /\ NamesWeekday(PacketOf(r).fields.due)) =>
              ResultOf(r).final_canonical[1].fields.due
                  = IsoFormat(FirstAfter(Today(now), WeekdayNamed(PacketOf(r).fields.due)))

\* C25's case: today is the weekday that the due value names, and the due date
\* resolved is a week from today.
C25_Witness ==
    \E r \in RequestIds :
        /\ Resolved(r) /\ NamesWeekday(DueOf(r))
        /\ weekday(Today(now)) = WeekdayNamed(DueOf(r))
        /\ requests[r].result = Some([value |-> IsoFormat(Today(now) + 7),
                                      strategy |-> "next_" \o WeekdayNames[WeekdayNamed(DueOf(r)) + 1]])

\* C26: a due value next week, or next week monday, resolves to the Monday of
\* the week after the current one, whatever weekday today is: 7 minus today's
\* weekday index days ahead.
C26_NextWeekIsFollowingMonday ==
    \A r \in RequestIds :
        (Resolved(r) /\ DueOf(r) \in {"next week", "next week monday"}) =>
            /\ requests[r].result # None
            /\ requests[r].result[1].value
                   = IsoFormat(Today(now) + (7 - weekday(Today(now))))

\* ------------------------------------------------------------------------
\* Properties of the order of the checks (SpecNormaliser)
\* ------------------------------------------------------------------------
\* What each check of normalize_intent finds in a packet, by itself.
IsCreate(packet) == packet.intent_type = "create_task"
IsUpdate(packet) == packet.intent_type = "update_task"
ProjectValue(packet) ==
    IF packet.fields.project # Absent THEN packet.fields.project
    ELSE IF packet.fields.project_id # Absent THEN packet.fields.project_id ELSE Null
FailsConfidence(packet) ==
    ConfidencePresent(packet) /\ packet.confidence < min_confidence_to_write
FailsTypePresence(packet) == ~Truthy(packet.intent_type)
FailsTypeWhitelist(packet) == ~IsCreate(packet) /\ ~IsUpdate(packet)
FailsRequiredFields(packet) ==
    \/ IsCreate(packet) /\ ~Truthy(packet.fields.title) /\ ~Truthy(packet.title)
    \/ IsUpdate(packet) /\ ~Truthy(packet.fields.task_id)
                        /\ ~Truthy(packet.fields.notion_page_id)
FailsProject(packet) ==
    /\ IsCreate(packet)
    /\ IsStr(ProjectValue(packet))
    /\ ~packet.fields.project_resolved
    /\ ~Selectable(_normalize_project_candidates(Resolve(ProjectValue(packet))))
FailsDue(packet) ==
    /\ IsStr(packet.fields.due)
    /\ packet.fields.due \notin RelativeDues
    /\ ~IsIsoDate(packet.fields.due)
    /\ packet.fields.due \notin IsoDateTimes
InferredFields(packet) == IF packet.fields.due \in RelativeDues THEN 1 ELSE 0
FailsInferenceLimit(packet) == InferredFields(packet) > max_inferred_fields
FailsPatch(packet) ==
    /\ IsUpdate(packet)
    /\ packet.fields.status = Absent
    /\ packet.fields.priority = Absent
    /\ ~Truthy(packet.fields.due)

\* The checks in the order of the specification, each with the outcome it
\* gives when it does not pass.
OrderedChecks(packet) ==
    << [fails |-> FailsConfidence(packet), outcome |-> "POLICY_LOW_CONFIDENCE"],
       [fails |-> FailsTypePresence(packet), outcome |-> "ask intent_type"],
       [fails |-> FailsTypeWhitelist(packet), outcome |-> "UNSUPPORTED_INTENT_TYPE"],
       [fails |-> FailsRequiredFields(packet),
        outcome |-> IF IsCreate(packet) THEN "VALIDATION_ERROR" ELSE "POLICY_MISSING_TASK_ID"],
       [fails |-> FailsProject(packet), outcome |-> "ask project"],
       [fails |-> FailsDue(packet), outcome |-> "ask due"],
       [fails |-> FailsInferenceLimit(packet), outcome |-> "POLICY_TOO_MANY_INFERENCES"],
       [fails |-> FailsPatch(packet), outcome |-> "VALIDATION_ERROR"] >>
FirstFailure(packet) ==
    LET failing == SelectSeq(OrderedChecks(packet), LAMBDA check : check.fails)
    IN  IF failing = << >> THEN "ready" ELSE failing[1].outcome
OutcomeOf(result) ==
    IF result.status = "rejected" THEN result.error_code
    ELSE IF result.status = "needs_clarification"
    THEN "ask " \o result.canonical_draft[1].pending.field
    ELSE result.status

\* C30: the result of normalize_intent is the outcome of the first check that
\* does not pass, in the order confidence gate, intent-type presence,
\* intent-type whitelist, required fields, project resolution, due-date
\* resolution, inference limit, update-task patch; it is ready when all pass.
C30_FirstFailingCheckDecides ==
    \A r \in RequestIds :
        Normalized(r) => OutcomeOf(ResultOf(r)) = FirstFailure(PacketOf(r))

\* C30's case: a create_task with an ambiguous project and a due value that is
\* no date has been normalised, and the question is about the project.
C30_Witness ==
    \E r \in RequestIds :
        /\ Normalized(r)
        /\ FailsProject(PacketOf(r)) /\ FailsDue(PacketOf(r))
        /\ ~FailsConfidence(PacketOf(r)) /\ ~FailsRequiredFields(PacketOf(r))
        /\ AsksAbout(ResultOf(r), "project")

\* ------------------------------------------------------------------------
\* Properties of the idempotency key (SpecIdempotencyKey)
\* ------------------------------------------------------------------------
Keyed(r) ==
    /\ Called(r, "compute_idempotency_key")
    /\ requests[r].idempotency_key # Null
\* The two texts denote the same JSON value: the same atom, or objects with
\* the same keys and the same value under each key, whatever the order of the
\* members and the blanks.
RECURSIVE SameJsonValue(_, _)
SameJsonValue(one, two) ==
    /\ one.t = two.t
    /\ one.s = two.s
    /\ Len(one.m) = Len(two.m)
    /\ \A i \in 1..Len(one.m) :
          \E j \in 1..Len(two.m) :
              /\ two.m[j].k = one.m[i].k
              /\ SameJsonValue(one.m[i].v, two.m[j].v)
DiffersInOrderAndBlanks(one, two) ==
    /\ one.ws # two.ws
    /\ \E i \in 1..Len(one.m) :
          /\ one.m[i].k = "fields"
          /\ \E j \in 1..Len(two.m) :
                /\ j # i
                /\ two.m[j].k = "fields"
                /\ one.m[i].v.m[1].k # two.m[j].v.m[1].k

\* C22: two bodies that denote the same JSON value, whatever the order of
\* their members at any depth and their blanks, get the same idempotency key;
\* the key is that of the parsed body alone, so the two requests have the same
\* key although the identifiers minted for them differ.
C22_KeyOfJsonValue ==
    /\ \A r \in RequestIds :
          Keyed(r) =>
              requests[r].idempotency_key
                  = compute_idempotency_key(json_loads(requests[r].body))
    /\ \A p, q \in RequestIds :
          (/\ p # q /\ Keyed(p) /\ Keyed(q)
           /\ SameJsonValue(requests[p].body, requests[q].body)) =>
              /\ requests[p].idempotency_key = requests[q].idempotency_key
              /\ requests[p].intent_id # requests[q].intent_id
              /\ requests[p].trace_id # requests[q].trace_id

\* C22's case: two bodies of the same value, one with blanks and one without,
\* with the members in another order at the top and inside fields, have got
\* the same key.
C22_Witness ==
    \E p, q \in RequestIds :
        /\ p # q /\ Keyed(p) /\ Keyed(q)
        /\ SameJsonValue(requests[p].body, requests[q].body)
        /\ DiffersInOrderAndBlanks(requests[p].body, requests[q].body)
        /\ requests[p].idempotency_key = requests[q].idempotency_key

\* ------------------------------------------------------------------------
\* Properties of the expiry boundary (SpecLifecycle)
\* ------------------------------------------------------------------------
Age(row) == now - row.created_at
\* The answer request r arrives, with an answer in it, at the open
\* clarification at place i.
AnswerArrivesAtOpen(r, i) ==
    /\ Arrives(r)
    /\ requests'[r].kind = "answer"
    /\ Truthy(requests'[r].answer.choice_id) \/ Truthy(requests'[r].answer.answer_text)
    /\ clarifications[i].clarification_id = requests'[r].clarification_id
    /\ clarifications[i].status = "open"
    /\ ~ActorMismatch(requests'[r].x_actor_id, clarifications[i].actor_id)
\* GET /v1/clarifications arrives and sweeps.
ListSweeps(r) == requests[r].pc = "idle" /\ requests'[r].kind = "list"

\* C27, as stated: an open clarification whose age is clarification_expiry_hours
\* or more is expired by the answer endpoint and by the sweep, a younger one is
\* not.
C27_ExpiresAtExactAge ==
    [][ \A r \in RequestIds, i \in 1..Len(clarifications) :
          /\ AnswerArrivesAtOpen(r, i) =>
                (requests'[r].pc = "answer_expire"
                    <=> Age(clarifications[i]) >= clarification_expiry_hours)
          /\ (/\ ListSweeps(r)
              /\ clarifications[i].status = "open"
              /\ InActorScope(clarifications[i], requests'[r].x_actor_id)) =>
                (clarifications'[i].status = "expired"
                    <=> Age(clarifications[i]) >= clarification_expiry_hours)
      ]_vars

\* C27, as the code has it: an open clarification is expired by the answer
\* endpoint and by the sweep when its age is more than
\* clarification_expiry_hours; one whose age is exactly
\* clarification_expiry_hours, or less, is not: it is answered, and listed, as
\* an open one.
C27_ExpiresPastExactAge ==
    [][ \A r \in RequestIds, i \in 1..Len(clarifications) :
          /\ AnswerArrivesAtOpen(r, i) =>
                /\ requests'[r].pc = "answer_expire"
                      <=> Age(clarifications[i]) > clarification_expiry_hours
                /\ requests'[r].pc = "answer_update"
                      <=> Age(clarifications[i]) <= clarification_expiry_hours
          /\ (/\ ListSweeps(r)
              /\ clarifications[i].status = "open"
              /\ InActorScope(clarifications[i], requests'[r].x_actor_id)) =>
                /\ clarifications'[i].status = "expired"
                      <=> Age(clarifications[i]) > clarification_expiry_hours
                /\ clarifications'[i].status = "open"
                      <=> Age(clarifications[i]) <= clarification_expiry_hours
      ]_vars

\* C27's case: an answer has arrived at an open clarification that is exactly
\* clarification_expiry_hours old and goes on to the guarded update, and a
\* GET /v1/clarifications has listed a clarification of that age.
C27_Witness ==
    \E r, q \in RequestIds, i \in 1..Len(clarifications) :
        /\ requests[r].kind = "answer" /\ requests[r].pc = "answer_update"
        /\ clarifications[i].clarification_id = requests[r].clarification_id
        /\ clarifications[i].status = "open"
        /\ Age(clarifications[i]) = clarification_expiry_hours
        /\ requests[q].kind = "list" /\ Done(q)
        /\ \E k \in 1..Len(requests[q].listing) :
              requests[q].listing[k].clarification_id = clarifications[i].clarification_id

\* ------------------------------------------------------------------------
\* Properties of the clarification rows (SpecLifecycle)
\* ------------------------------------------------------------------------
\* C29: in every reachable state a clarification has an answered_at, and has
\* a stored answer, exactly when its status is answered.
C29_AnsweredAtIffAnswered ==
    \A i \in 1..Len(clarifications) :
        /\ clarifications[i].answered_at # Null <=> clarifications[i].status = "answered"
        /\ clarifications[i].answer # None <=> clarifications[i].status = "answered"

\* C29's case: the table holds an answered clarification with its answer and
\* answered_at, and an expired one without.
C29_Witness ==
    \E i, j \in 1..Len(clarifications) :
        /\ clarifications[i].status = "answered"
        /\ clarifications[i].answered_at # Null /\ clarifications[i].answer # None
        /\ clarifications[j].status = "expired"
        /\ clarifications[j].answered_at = Null /\ clarifications[j].answer = None

\* ------------------------------------------------------------------------
\* Properties of the answer to a project clarification (SpecProject)
\* ------------------------------------------------------------------------
\* The project the answer names: the choice, or failing that the typed text.
AnsweredProject(answer) == Or(answer.choice_id, answer.answer_text)

AsksForProject(req) ==
    /\ req.kind = "answer"
    /\ req.intent_row # None
    /\ DraftOrEmpty(req.intent_row[1].canonical_draft).pending.field = "project"

\* C28: answering a project clarification with a choice_id c, or with an
\* answer_text c when no choice_id is given, makes the normalisation pass that
\* follows take c as the project as it stands, without resolving it again: the
\* pass sets the intent row to ready with project c, and the answer returns
\* ready with plan payload.project = c.
C28_ProjectAnswerIsTakenAsGiven ==
    [][ \A r \in RequestIds :
          LET req == requests[r]
              c == AnsweredProject(req.answer)
          IN  /\ (req.pc = "answer_normalize" /\ requests'[r].pc # "answer_normalize"
                    /\ AsksForProject(req)) =>
                    /\ requests'[r].pc = "answer_ready_journal"
                    /\ requests'[r].result[1].status = "ready"
                    /\ \E j \in 1..Len(intents') :
                          /\ intents'[j].intent_id = req.intent_id
                          /\ intents'[j].status = "ready"
                          /\ intents'[j].final_canonical # None
                          /\ intents'[j].final_canonical[1].fields.project = c
              /\ (req.pc = "answer_ready_journal" /\ requests'[r].pc = "done"
                    /\ AsksForProject(req)) =>
                    /\ requests'[r].status_code = 200
                    /\ requests'[r].response[1].status = "ready"
                    /\ requests'[r].response[1].plan[1][1].payload.project = c
      ]_vars

\* An answer typed as text, which the resolver would call ambiguous, has come
\* back ready with that text as the project, and the intent row is ready.
C28_Witness ==
    \E r \in RequestIds, j \in 1..Len(intents) :
        /\ requests[r].kind = "answer" /\ Done(r)
        /\ requests[r].normalized = 1
        /\ requests[r].answer.choice_id = Null
        /\ requests[r].answer.answer_text = "Alpha"
        /\ requests[r].status_code = 200
        /\ requests[r].response[1].status = "ready"
        /\ requests[r].response[1].plan[1][1].payload.project = "Alpha"
        /\ intents[j].intent_id = requests[r].intent_id
        /\ intents[j].status = "ready"

\* ------------------------------------------------------------------------
\* Properties of update_task (SpecNormaliser)
\* ------------------------------------------------------------------------
TaskIdOf(packet) == Or(packet.fields.task_id, packet.fields.notion_page_id)
SuppliesPatchField(packet) ==
    \/ packet.fields.status # Absent
    \/ packet.fields.priority # Absent
    \/ Truthy(packet.fields.due)
PlanOf(result) == build_plan("int_1", "corr_1", result.final_canonical[1])
\* The patch holds the supplied status and priority as they came, and a due
\* exactly when one was supplied.
PatchOfSupplied(patch, packet) ==
    /\ patch.status = packet.fields.status
    /\ patch.priority = packet.fields.priority
    /\ (patch.due = Absent) <=> ~Truthy(packet.fields.due)
    /\ (packet.fields.due \notin RelativeDues) => patch.due = packet.fields.due
UpdatePlan(result, packet) ==
    /\ Len(PlanOf(result)) = 1
    /\ PlanOf(result)[1].action = "notion.tasks.update"
    /\ PlanOf(result)[1].payload.notion_page_id = TaskIdOf(packet)
    /\ PlanOf(result)[1].payload.patch = result.final_canonical[1].fields.patch
    /\ PatchOfSupplied(PlanOf(result)[1].payload.patch, packet)

\* C31 as the specification words it: for update_task, normalize_intent is
\* ready exactly when a task_id (or notion_page_id) is present and at least one
\* of status, priority, due is supplied.
C31_UpdateReadyIffIdAndPatch ==
    \A r \in RequestIds :
        (Normalized(r) /\ IsUpdate(PacketOf(r))) =>
            (ResultOf(r).status = "ready"
                <=> (Truthy(TaskIdOf(PacketOf(r))) /\ SuppliesPatchField(PacketOf(r))))

\* C31: for an update_task that passes the confidence gate, a missing task_id
\* (and notion_page_id) is rejected with POLICY_MISSING_TASK_ID; otherwise a
\* due that is neither a date nor a relative label asks for the due date;
\* otherwise an empty patch is rejected with VALIDATION_ERROR; otherwise the
\* result is ready, with a single notion.tasks.update action whose payload is
\* {notion_page_id: task_id, patch} and whose patch has exactly the supplied
\* fields.
C31_UpdateReadyIffIdPatchAndDue ==
    \A r \in RequestIds :
        (Normalized(r) /\ IsUpdate(PacketOf(r)) /\ ~FailsConfidence(PacketOf(r))) =>
            LET packet == PacketOf(r)
                result == ResultOf(r)
            IN  IF ~Truthy(TaskIdOf(packet))
                THEN RejectedWith(result, "POLICY_MISSING_TASK_ID")
                ELSE IF FailsDue(packet)
                THEN OutcomeOf(result) = "ask due"
                ELSE IF ~SuppliesPatchField(packet)
                THEN RejectedWith(result, "VALIDATION_ERROR")
                ELSE result.status = "ready" /\ UpdatePlan(result, packet)

\* C31's case: an update_task with a task_id and a priority alone has been
\* normalised and is ready.
C31_Witness ==
    \E r \in RequestIds :
        /\ Normalized(r) /\ IsUpdate(PacketOf(r))
        /\ PacketOf(r).fields.task_id = "task_1"
        /\ PacketOf(r).fields.status = Absent
        /\ PacketOf(r).fields.priority = "high"
        /\ PacketOf(r).fields.due = Absent
        /\ ResultOf(r).status = "ready"
        /\ UpdatePlan(ResultOf(r), PacketOf(r))

\* ------------------------------------------------------------------------
\* Properties of the intent rows (SpecReposts)
\* ------------------------------------------------------------------------
\* The row keeps what identifies it; an actor_id is filled only where there
\* was none.
KeepsIdentity(before, after) ==
    /\ after.intent_id = before.intent_id
    /\ after.idempotency_key = before.idempotency_key
    /\ after.raw_packet = before.raw_packet
    /\ after.correlation_id = before.correlation_id
    /\ after.trace_id = before.trace_id \/ ~Truthy(before.trace_id)
    /\ after.actor_id = before.actor_id \/ ~Truthy(before.actor_id)

\* C32: once an intent row exists it is never deleted and its intent_id,
\* idempotency_key, raw_packet and correlation_id never change; a step changes
\* at most its status, canonical_draft, final_canonical and cached envelope,
\* and fills an actor_id or trace_id that was empty.
C32_IntentRowKeepsIdentity ==
    [][ /\ Len(intents') >= Len(intents)
        /\ \A j \in 1..Len(intents) : KeepsIdentity(intents[j], intents'[j])
      ]_vars

\* ------------------------------------------------------------------------
\* Properties of the cached envelope (SpecIngest)
\* ------------------------------------------------------------------------
\* The request that created the intent has returned, and the row caches the
\* envelope it returned.
CreatorHasCached(row) ==
    \E r \in RequestIds :
        /\ requests[r].kind = "ingest" /\ requests[r].created
        /\ requests[r].intent_id = row.intent_id
        /\ Answered200(r)
        /\ row.response_envelope_json # None
        /\ EnvelopeFields(row.response_envelope_json[1])
               = EnvelopeFields(requests[r].response[1])

\* C33: once the request that created an intent has cached its final envelope
\* on the row, no later step of any re-POST of the same body replaces the
\* cached envelope by a different one.
C33_CachedEnvelopeStays ==
    [][ \A j \in 1..Len(intents) :
          CreatorHasCached(intents[j]) =>
              /\ intents'[j].response_envelope_json # None
              /\ EnvelopeFields(intents'[j].response_envelope_json[1])
                     = EnvelopeFields(intents[j].response_envelope_json[1])
      ]_vars

\* ------------------------------------------------------------------------
\* Properties of the statuses of intents and clarifications (SpecLifecycle)
\* ------------------------------------------------------------------------
ClarificationsOf(intent_id, status) ==
    {i \in 1..Len(clarifications) :
        /\ clarifications[i].intent_id = intent_id
        /\ clarifications[i].status = status}

\* C34: in every state, whatever the interleaving of answers and expiry
\* sweeps, an intent with status expired has a clarification with status
\* expired.
C34_ExpiredIntentHasExpiredClarification ==
    \A j \in 1..Len(intents) :
        intents[j].status = "expired"
            => ClarificationsOf(intents[j].intent_id, "expired") # {}

TerminalStatuses == {"executed", "failed", "expired"}

\* C35: executed, failed and expired are terminal: no step changes the status
\* of an intent that has one of them.
C35_TerminalStatusStays ==
    [][ \A j \in 1..Len(intents) :
          intents[j].status \in TerminalStatuses
              => intents'[j].status = intents[j].status
      ]_vars

Quiescent == \A r \in RequestIds : ~InFlight(r)

\* C36: in every state where no request is in flight, an intent has status
\* needs_clarification exactly when it has exactly one open clarification.
C36_NeedsClarificationIffOneOpen ==
    Quiescent =>
        \A j \in 1..Len(intents) :
            intents[j].status = "needs_clarification"
                <=> Cardinality(ClarificationsOf(intents[j].intent_id, "open")) = 1

\* ------------------------------------------------------------------------
\* Properties of a clarification round (SpecRound)
\* ------------------------------------------------------------------------
RawFields(intent_id) ==
    LET row == get_intent(intents, intent_id)[1] IN row.raw_packet.fields
\* The answer's normalisation pass has just ended ready.
EndsReady(r) ==
    /\ requests[r].kind = "answer" /\ requests[r].pc = "answer_normalize"
    /\ requests'[r].pc = "answer_ready_journal"
FinalFields(r) == requests'[r].result[1].final_canonical[1].fields

\* C37: the fields of the original packet survive a clarification round: when
\* the answer to a create_task's project question ends ready, the due of the
\* original fields is in the final canonical fields and in the plan payload;
\* when the answer to an update_task's due question ends ready, the status and
\* priority of the original fields are in the final patch.
C37_OriginalFieldsSurvive ==
    [][ \A r \in RequestIds :
          EndsReady(r) =>
              LET raw == RawFields(requests[r].intent_id)
                  row == requests[r].intent_row[1]
              IN  /\ row.raw_packet.intent_type = "create_task" =>
                        /\ FinalFields(r).due = raw.due
                        /\ requests'[r].response_payload[1].plan[1][1].payload.due = raw.due
                  /\ row.raw_packet.intent_type = "update_task" =>
                        /\ FinalFields(r).patch.status = raw.status
                        /\ FinalFields(r).patch.priority = raw.priority
      ]_vars

\* ------------------------------------------------------------------------
\* Properties of actor scoping on POST /v1/intents (SpecReposts)
\* ------------------------------------------------------------------------
\* The request returns an envelope in this step.
ReturnsEnvelope(r) ==
    /\ requests[r].pc # "done" /\ requests'[r].pc = "done"
    /\ requests'[r].status_code = 200
    /\ requests'[r].response # None
\* The intent of the envelope belongs to another actor than the caller.
BelongsToAnother(r) ==
    \E j \in 1..Len(intents') :
        /\ intents'[j].intent_id = requests'[r].response[1].intent_id
        /\ Truthy(intents'[j].actor_id)
        /\ Truthy(requests'[r].x_actor_id)
        /\ intents'[j].actor_id # requests'[r].x_actor_id

\* C38: a request carrying X-Actor-Id B is never answered with the outcome
\* envelope of an intent whose stored actor_id is a different non-null actor
\* A, a POST /v1/intents with the idempotency key of A's intent included.
C38_NoEnvelopeAcrossActors ==
    [][ \A r \in RequestIds : ReturnsEnvelope(r) => ~BelongsToAnother(r) ]_vars

\* ------------------------------------------------------------------------
\* Properties of the needs_clarification envelope (SpecLifecycle)
\* ------------------------------------------------------------------------
\* The envelope carries a clarification that is open in the store.
CarriesOpenClarification(envelope, clarifications_t) ==
    /\ envelope.clarification # None
    /\ \E i \in 1..Len(clarifications_t) :
          /\ clarifications_t[i].clarification_id
                 = envelope.clarification[1].clarification_id
          /\ clarifications_t[i].status = "open"

\* C39: every needs_clarification envelope returned by POST /v1/intents, GET
\* /v1/intents/{id} or the answer endpoint carries a clarification that is
\* open in the store when the response is produced; a lookup that has expired
\* the intent's open clarification does not report needs_clarification.
C39_NeedsClarificationCarriesOpen ==
    [][ \A r \in RequestIds :
          (ReturnsEnvelope(r) /\ requests'[r].response[1].status = "needs_clarification")
              => CarriesOpenClarification(requests'[r].response[1], clarifications')
      ]_vars

\* ------------------------------------------------------------------------
\* Properties of the first POST /v1/intents (SpecPost)
\* ------------------------------------------------------------------------
Creates(r) == requests[r].kind = "ingest" /\ requests[r].created
\* The row of the request's intent after the step has one of the statuses and
\* an envelope cached.
LeavesIntent(r, statuses) ==
    \E j \in 1..Len(intents') :
        /\ intents'[j].intent_id = requests[r].intent_id
        /\ intents'[j].status \in statuses
        /\ intents'[j].response_envelope_json # None
CreatorTerminates ==
    \A r \in RequestIds : (Creates(r) /\ InFlight(r)) ~> Done(r)

====
